---- MODULE Spec2Model ----
(***************************************************************************)
(* The AI observability logger (05_src/utils/ai_logger.py) and its query   *)
(* layer (05_src/ai_observability/storage.py) as a state machine.          *)
(*                                                                         *)
(* The table ai_logs is the sequence of its committed rows in rowid order. *)
(* Python's None is the value None below; a str is a TLA+ string; a        *)
(* datetime is a record [sec, usec, tz]; the TEXT a timestamp is stored as *)
(* is the sequence of the character codes that isoformat() produces.       *)
(***************************************************************************)
EXTENDS Integers, Sequences, FiniteSets, TLC

VARIABLES
    ai_logs,              \* committed rows of table ai_logs, in rowid order
    schema,               \* names of the table and indexes that exist in the file
    conversation_id_ctx,  \* ContextVar: execution context -> its conversation id
    logger,               \* the AILogger instance: its configuration fields
    storage_up,           \* whether sqlite3.connect(storage_path) succeeds now
    pc,                   \* execution context -> position inside AILogger.log
    entry,                \* execution context -> AILogEntry built, not yet stored
    last,                 \* observation of the call that completed last
    script,               \* position, inputs and observations of the calling script
    _ai_logger,           \* module global _ai_logger: a reference, NoRef for None
    instances,            \* the AILogger instances get_ai_logger has constructed
    environ,              \* os.environ: the two variables get_ai_logger reads
    path_exists           \* Path(db_path).exists(): a file is at the storage path

vars ==
    <<ai_logs, schema, conversation_id_ctx, logger, storage_up, pc, entry, last,
      script, _ai_logger, instances, environ, path_exists>>

\* the state of the module-level default logger, and of the file system
globals == <<_ai_logger, instances, environ, path_exists>>

-----------------------------------------------------------------------------
(* Bounds of the model *)

\* the table holds at most MaxRows rows; uuid4 draws from MaxRows values
MaxRows == 2
\* the clock shows seconds 0..MaxSec of one minute
MaxSec == 1
\* texts are up to MaxText characters long, and loggers keep up to MaxKeep
MaxText == 12
MaxKeep == 2

-----------------------------------------------------------------------------
(* Python values *)

None == "None"

\* bool(v) of an Optional[str]: None and the empty string are falsy
Truthy(v) == v # None /\ v # ""

\* a or b
PyOr(a, b) == IF Truthy(a) THEN a ELSE b

Min(a, b) == IF a <= b THEN a ELSE b

\* the execution contexts (threads or tasks) that call the logger
Contexts == {"X", "Y"}

\* conversation ids callers use; the empty string is a str like any other
ConvIds == {"", "conv-1"}

-----------------------------------------------------------------------------
(* Event taxonomy *)

\* list(LogCategory): the values in declaration order
LogCategory ==
    <<"prompt", "response", "tool_call", "tool_result", "evaluation",
      "performance", "cost", "error", "guardrail", "model_config">>

LogCategories == {LogCategory[i] : i \in 1..Len(LogCategory)}

LogSeverity == {"DEBUG", "INFO", "WARNING", "ERROR", "CRITICAL"}

\* the table local to _should_log
severity_levels(s) ==
    CASE s = "DEBUG" -> 0
      [] s = "INFO" -> 1
      [] s = "WARNING" -> 2
      [] s = "ERROR" -> 3
      [] s = "CRITICAL" -> 4

-----------------------------------------------------------------------------
(* datetime and the TEXT it is stored as *)

\* microsecond values the clock shows (0 is the value isoformat() leaves out)
Micros == {0, 500000}

\* datetime.now(timezone.utc): an aware datetime of the modelled minute
Instants == [sec : 0..MaxSec, usec : Micros, tz : {"utc"}]

\* the instant every call reads when time plays no part
Epoch == [sec |-> 0, usec |-> 0, tz |-> "utc"]

\* microseconds since the start of the minute: the order of instants in time
Micro(dt) == dt.sec * 1000000 + dt.usec

TwoDigits(n) == <<48 + (n \div 10), 48 + (n % 10)>>

SixDigits(n) ==
    <<48 + (n \div 100000), 48 + ((n \div 10000) % 10), 48 + ((n \div 1000) % 10),
      48 + ((n \div 100) % 10), 48 + ((n \div 10) % 10), 48 + (n % 10)>>

\* datetime.isoformat() from the seconds field on ("YYYY-MM-DDTHH:MM:" is the
\* same for every instant of the minute): "SS", then ".ffffff" unless the
\* microsecond is 0, then "+00:00" when the datetime is aware (UTC)
isoformat(dt) ==
    TwoDigits(dt.sec)
      \o (IF dt.usec = 0 THEN <<>> ELSE <<46>> \o SixDigits(dt.usec))
      \o (IF dt.tz = "utc" THEN <<43, 48, 48, 58, 48, 48>> ELSE <<>>)

\* SQLite's comparison of two TEXT values (BINARY collation): the first
\* differing character decides, else the shorter one is smaller
TextLess(a, b) ==
    LET n == Min(Len(a), Len(b))
        diff == {i \in 1..n : a[i] # b[i]}
    IN  IF diff = {}
        THEN Len(a) < Len(b)
        ELSE LET k == CHOOSE i \in diff : \A j \in diff : i <= j
             IN  a[k] < b[k]

TextLeq(a, b) == a = b \/ TextLess(a, b)

-----------------------------------------------------------------------------
(* AILogger *)

\* "no list given" for an Optional[List[...]] argument
NoList == <<None>>

\* max_log_length's default
DefaultMaxLogLength == 10000

\* AILogger.__init__: the fields of the instance
AILogger(storage_path, min_severity, enabled_categories, max_log_length) ==
    [storage_path |-> storage_path,
     min_severity |-> min_severity,
     enabled_categories |->
        IF enabled_categories # NoList /\ enabled_categories # <<>>
        THEN enabled_categories ELSE LogCategory,
     max_log_length |-> max_log_length]

\* x in a list
InList(x, l) == \E i \in 1..Len(l) : l[i] = x

\* mutant: the threshold compared with <= (an event at the minimum is dropped)
_should_log_inclusive(self, severity, category) ==
    IF severity_levels(severity) <= severity_levels(self.min_severity)
    THEN FALSE
    ELSE IF ~InList(category, self.enabled_categories)
    THEN FALSE
    ELSE TRUE

_should_log(self, severity, category) ==
    IF severity_levels(severity) < severity_levels(self.min_severity)
    THEN FALSE
    ELSE IF ~InList(category, self.enabled_categories)
    THEN FALSE
    ELSE TRUE

\* an Optional[str] text argument is a sequence of characters, or NoText
NoText == <<None>>
\* an Optional number is <<n>>, or NoNumber
NoNumber == <<>>
Number(n) == <<n>>

\* Python values that pass through json: None, a dict (its items), a list
PyNone == [type |-> "NoneType"]
Dict(items) == [type |-> "dict", items |-> items]
List(items) == [type |-> "list", items |-> items]
EmptyDict == Dict({})
Scores == Dict({<<"coherence", 1>>})

\* json.dumps, on the values the callers pass
json_dumps(v) ==
    CASE v = EmptyDict -> "{}"
      [] v = Scores -> "{\"coherence\": 1}"
      [] v = List({}) -> "[]"
      [] v = List({1}) -> "[1]"
      [] v = PyNone -> "null"

\* bool(v) for those values
TruthyValue(v) == v # PyNone /\ v.items # {}

\* the marker _truncate_text appends: "... [truncated n chars]"
Digit(d) ==
    CASE d = 0 -> "0" [] d = 1 -> "1" [] d = 2 -> "2" [] d = 3 -> "3"
      [] d = 4 -> "4" [] d = 5 -> "5" [] d = 6 -> "6" [] d = 7 -> "7"
      [] d = 8 -> "8" [] d = 9 -> "9"

RECURSIVE str(_)
\* str(n) of a natural number: its decimal digits
str(n) == IF n < 10 THEN <<Digit(n)>> ELSE str(n \div 10) \o <<Digit(n % 10)>>

Marker(n) ==
    <<".", ".", ".", " ", "[", "t", "r", "u", "n", "c", "a", "t", "e", "d", " ">>
    \o str(n) \o <<" ", "c", "h", "a", "r", "s", "]">>

\* mutant: the marker counts the characters that were kept
_truncate_text_counts_kept(self, text) ==
    IF text # NoText /\ text # <<>> /\ Len(text) > self.max_log_length
    THEN SubSeq(text, 1, self.max_log_length) \o Marker(self.max_log_length)
    ELSE text

\* AILogger._truncate_text
_truncate_text(self, text) ==
    IF text # NoText /\ text # <<>> /\ Len(text) > self.max_log_length
    THEN SubSeq(text, 1, self.max_log_length)
         \o Marker(Len(text) - self.max_log_length)
    ELSE text

\* the AILogEntry that log builds; kw holds the optional typed arguments and
\* the **metadata dict and the message (tool_name plays no part and is left out)
AILogEntry(id, timestamp, conversation_id, category, severity, kw) ==
    [id |-> id, timestamp |-> timestamp, conversation_id |-> conversation_id,
     category |-> category, severity |-> severity,
     message |-> kw.message,
     metadata |-> kw.metadata,
     model_name |-> kw.model_name,
     prompt_text |-> kw.prompt_text,
     response_text |-> kw.response_text,
     token_count_input |-> kw.token_count_input,
     token_count_output |-> kw.token_count_output,
     latency_ms |-> kw.latency_ms,
     cost_usd |-> kw.cost_usd,
     evaluation_scores |-> kw.evaluation_scores]

\* a call that passes the message "m" and none of the optional arguments
NoKw ==
    [message |-> "m", metadata |-> EmptyDict, model_name |-> None,
     prompt_text |-> NoText, response_text |-> NoText,
     token_count_input |-> NoNumber, token_count_output |-> NoNumber,
     latency_ms |-> NoNumber, cost_usd |-> NoNumber,
     evaluation_scores |-> PyNone]

\* a call that passes model_name
WithModel(model_name) == [NoKw EXCEPT !.model_name = model_name]

\* the arguments as log hands them to AILogEntry: the two texts truncated
Truncated(self, kw) ==
    [kw EXCEPT !.prompt_text = _truncate_text(self, @),
               !.response_text = _truncate_text(self, @)]

\* the row that _store's INSERT writes for an entry
Row(e) ==
    [id |-> e.id, timestamp |-> isoformat(e.timestamp),
     conversation_id |-> e.conversation_id,
     category |-> e.category, severity |-> e.severity,
     message |-> e.message,
     metadata |-> json_dumps(e.metadata),
     model_name |-> e.model_name,
     prompt_text |-> e.prompt_text,
     response_text |-> e.response_text,
     token_count_input |-> e.token_count_input,
     token_count_output |-> e.token_count_output,
     latency_ms |-> e.latency_ms,
     cost_usd |-> e.cost_usd,
     evaluation_scores |->
        IF TruthyValue(e.evaluation_scores)
        THEN json_dumps(e.evaluation_scores) ELSE None]

Ids(db) == {db[i].id : i \in 1..Len(db)}

\* what a write can meet once connected: nothing, a failing INSERT, a failing commit
Faults == {"none", "insert", "commit"}

\* mutant: the row written by INSERT stays when commit raises
_store_keeps_uncommitted(db, e, up, fault) ==
    IF ~up
    THEN [ai_logs |-> db, outcome |-> "raised", io |-> TRUE]
    ELSE IF fault = "insert" \/ e.id \in Ids(db) \/ e.message = None
    THEN [ai_logs |-> db, outcome |-> "raised", io |-> TRUE]
    ELSE IF fault = "commit"
    THEN [ai_logs |-> Append(db, Row(e)), outcome |-> "raised", io |-> TRUE]
    ELSE [ai_logs |-> Append(db, Row(e)), outcome |-> "returned", io |-> TRUE]

\* mutant: the column id is no primary key
_store_without_primary_key(db, e, up, fault) ==
    IF ~up
    THEN [ai_logs |-> db, outcome |-> "raised", io |-> TRUE]
    ELSE IF fault = "insert" \/ e.message = None
    THEN [ai_logs |-> db, outcome |-> "raised", io |-> TRUE]
    ELSE IF fault = "commit"
    THEN [ai_logs |-> db, outcome |-> "raised", io |-> TRUE]
    ELSE [ai_logs |-> Append(db, Row(e)), outcome |-> "returned", io |-> TRUE]

\* mutant: the column message lacks NOT NULL
_store_nullable_message(db, e, up, fault) ==
    IF ~up
    THEN [ai_logs |-> db, outcome |-> "raised", io |-> TRUE]
    ELSE IF fault = "insert" \/ e.id \in Ids(db)
    THEN [ai_logs |-> db, outcome |-> "raised", io |-> TRUE]
    ELSE IF fault = "commit"
    THEN [ai_logs |-> db, outcome |-> "raised", io |-> TRUE]
    ELSE [ai_logs |-> Append(db, Row(e)), outcome |-> "returned", io |-> TRUE]

\* AILogger._store: connect, INSERT, commit, close. connect raises when the
\* storage is down; INSERT raises on its own fault, when the id is already a
\* row's primary key, or when message (NOT NULL, and the one such column that
\* a caller can pass None for) is None; a raise before commit returns leaves
\* the transaction uncommitted, and it is rolled back with the connection.
_store(db, e, up, fault) ==
    IF ~up
    THEN [ai_logs |-> db, outcome |-> "raised", io |-> TRUE]
    ELSE IF fault = "insert" \/ e.id \in Ids(db) \/ e.message = None
    THEN [ai_logs |-> db, outcome |-> "raised", io |-> TRUE]
    ELSE IF fault = "commit"
    THEN [ai_logs |-> db, outcome |-> "raised", io |-> TRUE]
    ELSE [ai_logs |-> Append(db, Row(e)), outcome |-> "returned", io |-> TRUE]

\* the conversation id log resolves: the argument or, failing it, the ambient one
conv_id(conversation_id, ambient) == PyOr(conversation_id, ambient)

\* mutant: the connection is opened before the gate is looked at
log_connect_first(self, ambient, db, up, fault, category, severity, conversation_id, kw, id, now) ==
    IF ~up
    THEN [ai_logs |-> db, outcome |-> "raised", io |-> TRUE]
    ELSE IF ~_should_log(self, severity, category)
    THEN [ai_logs |-> db, outcome |-> "returned", io |-> TRUE]
    ELSE _store(db,
                AILogEntry(id, now, conv_id(conversation_id, ambient),
                           category, severity, Truncated(self, kw)),
                up, fault)

\* AILogger.log as one call: gate, resolve the conversation id, build, store
log(self, ambient, db, up, fault, category, severity, conversation_id, kw, id, now) ==
    IF ~_should_log(self, severity, category)
    THEN [ai_logs |-> db, outcome |-> "returned", io |-> FALSE]
    ELSE _store(db,
                AILogEntry(id, now, conv_id(conversation_id, ambient),
                           category, severity, Truncated(self, kw)),
                up, fault)

\* uuid.uuid4(): any of the values; FreshId is the outcome that meets no row
UUIDs == 1..MaxRows

FreshId(db) == CHOOSE i \in 1..(Len(db) + 1) : i \notin Ids(db)

\* the observation a completed call leaves
Seen(op, r) == [op |-> op, outcome |-> r.outcome, io |-> r.io]

-----------------------------------------------------------------------------
(* Conversation correlation context *)

\* ContextVar.get() in context t
CtxGet(ctx, t) == ctx[t]

\* mutant: one variable shared by every context
CtxSetShared(ctx, t, v) == [u \in DOMAIN ctx |-> v]

\* ContextVar.set(v) in context t: the binding of t's own context changes
CtxSet(ctx, t, v) == [ctx EXCEPT ![t] = v]

-----------------------------------------------------------------------------
(* Schema *)

SchemaObjects ==
    {"ai_logs", "idx_conversation_id", "idx_category", "idx_severity",
     "idx_timestamp"}

\* mutant: the table is created anew (DROP TABLE, then CREATE TABLE)
CreateTableAnew(sch, db) == <<>>

\* CREATE TABLE IF NOT EXISTS ai_logs: the rows of the table afterwards
CreateTableIfNotExists(sch, db) == IF "ai_logs" \in sch THEN db ELSE <<>>

-----------------------------------------------------------------------------
(* Operations of the logger *)

Returned(op, io) == [op |-> op, outcome |-> "returned", io |-> io]
Raised(op) == [op |-> op, outcome |-> "raised", io |-> TRUE]

\* one call of AILogger.log in context t, made directly (op = "log") or by the
\* wrapper op; id and now are what uuid4() and datetime.now() return in it.
\* (Log, set_conversation_id and clear_conversation_id leave script to the
\* caller: a test script that makes the call moves on with it.)
LogCall(t, op, category, severity, conversation_id, kw, id, now, fault) ==
    /\ pc[t] = "idle"
    /\ LET r == log(logger, CtxGet(conversation_id_ctx, t), ai_logs, storage_up,
                    fault, category, severity, conversation_id, kw, id, now)
       IN  /\ ai_logs' = r.ai_logs
           /\ last' = Seen(op, r)
    /\ UNCHANGED <<schema, conversation_id_ctx, logger, storage_up, pc, entry>>
    /\ UNCHANGED globals

\* the call, while the table holds no more than MaxRows rows
Log(t, op, category, severity, conversation_id, kw, id, now, fault) ==
    /\ LogCall(t, op, category, severity, conversation_id, kw, id, now, fault)
    /\ Len(ai_logs') <= MaxRows

\* the same call in two steps, for callers that interleave: the gate, the
\* read of the context and the construction of the entry; then _store
LogBegin(t, category, severity, conversation_id, kw, id, now) ==
    /\ pc[t] = "idle"
    /\ Len(ai_logs) + Cardinality({u \in Contexts : pc[u] = "store"}) < MaxRows
    /\ IF ~_should_log(logger, severity, category)
       THEN /\ last' = Returned("log", FALSE)
            /\ UNCHANGED <<pc, entry>>
       ELSE /\ entry' = [entry EXCEPT ![t] =
                           AILogEntry(id, now,
                                      conv_id(conversation_id,
                                              CtxGet(conversation_id_ctx, t)),
                                      category, severity,
                                      Truncated(logger, kw))]
            /\ pc' = [pc EXCEPT ![t] = "store"]
            /\ UNCHANGED last
    /\ UNCHANGED <<ai_logs, schema, conversation_id_ctx, logger, storage_up>>
    /\ UNCHANGED globals

LogStore(t, fault) ==
    /\ pc[t] = "store"
    /\ LET r == _store(ai_logs, entry[t], storage_up, fault)
       IN  /\ ai_logs' = r.ai_logs
           /\ last' = Seen("log", r)
    /\ pc' = [pc EXCEPT ![t] = "idle"]
    /\ entry' = [entry EXCEPT ![t] = None]
    /\ UNCHANGED <<schema, conversation_id_ctx, logger, storage_up>>
    /\ UNCHANGED globals

log_prompt(t, model_name, conversation_id, id, now, fault) ==
    Log(t, "log_prompt", "prompt", "INFO", conversation_id,
        WithModel(model_name), id, now, fault)

log_response(t, model_name, conversation_id, id, now, fault) ==
    Log(t, "log_response", "response", "INFO", conversation_id,
        WithModel(model_name), id, now, fault)

log_tool_call(t, conversation_id, id, now, fault) ==
    Log(t, "log_tool_call", "tool_call", "INFO", conversation_id,
        NoKw, id, now, fault)

log_tool_result(t, success, conversation_id, id, now, fault) ==
    Log(t, "log_tool_result", "tool_result",
        IF success THEN "INFO" ELSE "ERROR", conversation_id,
        NoKw, id, now, fault)

log_evaluation(t, conversation_id, id, now, fault) ==
    Log(t, "log_evaluation", "evaluation", "INFO", conversation_id,
        NoKw, id, now, fault)

LogOps ==
    {"log", "log_prompt", "log_response", "log_tool_call", "log_tool_result",
     "log_evaluation"}

set_conversation_id(t, conversation_id) ==
    /\ pc[t] = "idle"
    /\ conversation_id_ctx' = CtxSet(conversation_id_ctx, t, conversation_id)
    /\ last' = Returned("set_conversation_id", FALSE)
    /\ UNCHANGED <<ai_logs, schema, logger, storage_up, pc, entry>>
    /\ UNCHANGED globals

clear_conversation_id(t) ==
    /\ pc[t] = "idle"
    /\ conversation_id_ctx' = CtxSet(conversation_id_ctx, t, None)
    /\ last' = Returned("clear_conversation_id", FALSE)
    /\ UNCHANGED <<ai_logs, schema, logger, storage_up, pc, entry>>
    /\ UNCHANGED globals

\* the statements of _init_db, in the order it executes them
Statements ==
    <<"ai_logs", "idx_conversation_id", "idx_category", "idx_severity",
      "idx_timestamp">>

\* mutant: CREATE INDEX name ON ai_logs(...), which fails on an existing name
CreateIndex(sch, name) ==
    [schema |-> IF "ai_logs" \in sch /\ name \notin sch
                THEN sch \cup {name} ELSE sch,
     raised |-> "ai_logs" \notin sch \/ name \in sch]

\* CREATE INDEX IF NOT EXISTS name ON ai_logs(...): fails without the table
CreateIndexIfNotExists(sch, name) ==
    [schema |-> IF "ai_logs" \in sch THEN sch \cup {name} ELSE sch,
     raised |-> "ai_logs" \notin sch]

\* cursor.execute(statement) of _init_db: one statement, atomic in SQLite
Execute(sch, db, name) ==
    IF name = "ai_logs"
    THEN [schema |-> sch \cup {"ai_logs"},
          ai_logs |-> CreateTableIfNotExists(sch, db), raised |-> FALSE]
    ELSE [schema |-> CreateIndexIfNotExists(sch, name).schema,
          ai_logs |-> db,
          raised |-> CreateIndexIfNotExists(sch, name).raised]

\* mutant: LogStorage.__init__ without the elif branch
LogStorage_unchecked(create_if_missing, exists) ==
    IF create_if_missing /\ ~exists THEN "_init_db" ELSE "return"

\* LogStorage.__init__: what the constructor does after self.db_path = db_path
LogStorage(create_if_missing, exists) ==
    IF create_if_missing /\ ~exists THEN "_init_db"
    ELSE IF ~exists THEN "raise FileNotFoundError"
    ELSE "return"

\* AILogger._init_db and LogStorage._init_db (the same statements): connect,
\* CREATE TABLE IF NOT EXISTS, four CREATE INDEX IF NOT EXISTS, commit
_init_db(op) ==
    /\ IF storage_up
       THEN /\ ai_logs' = CreateTableIfNotExists(schema, ai_logs)
            /\ schema' = schema \cup SchemaObjects
            /\ last' = Returned(op, TRUE)
       ELSE /\ UNCHANGED <<ai_logs, schema>>
            /\ last' = Raised(op)
    /\ UNCHANGED <<conversation_id_ctx, logger, storage_up, pc, entry, script>>
    /\ UNCHANGED globals

\* the environment: the storage becomes unavailable, or available again
StorageDown ==
    /\ storage_up
    /\ storage_up' = FALSE
    /\ UNCHANGED <<ai_logs, schema, conversation_id_ctx, logger, pc, entry, last,
                   script>>
    /\ UNCHANGED globals

StorageUp ==
    /\ ~storage_up
    /\ storage_up' = TRUE
    /\ UNCHANGED <<ai_logs, schema, conversation_id_ctx, logger, pc, entry, last,
                   script>>
    /\ UNCHANGED globals

-----------------------------------------------------------------------------
(* LogStorage: the query layer *)

\* "no datetime given" for an Optional[datetime] argument
NoTime == [sec |-> 0, usec |-> 0, tz |-> "absent"]

\* the filter arguments of query_logs
Filter(conversation_id, category, severity, model_name, start_time, end_time) ==
    [conversation_id |-> conversation_id, category |-> category,
     severity |-> severity, model_name |-> model_name,
     start_time |-> start_time, end_time |-> end_time]

NoFilter == Filter(None, None, None, None, NoTime, NoTime)

\* the WHERE clause query_logs builds: a condition for each truthy argument
\* (an equality never holds of a NULL column), joined by AND
Where(row, f) ==
    /\ Truthy(f.conversation_id) => row.conversation_id = f.conversation_id
    /\ Truthy(f.category) => row.category = f.category
    /\ Truthy(f.severity) => row.severity = f.severity
    /\ Truthy(f.model_name) => row.model_name = f.model_name
    /\ f.start_time # NoTime => TextLeq(isoformat(f.start_time), row.timestamp)
    /\ f.end_time # NoTime => TextLeq(row.timestamp, isoformat(f.end_time))

\* mutant: ORDER BY timestamp ASC
OrderByAscending(a, b) == ~TextLess(b.timestamp, a.timestamp)

\* ORDER BY timestamp DESC: whether row a may come before row b
OrderBy(a, b) == ~TextLess(a.timestamp, b.timestamp)

\* the orders in which SELECT ... WHERE ... ORDER BY timestamp DESC can
\* deliver the matching rows (rows of equal timestamp come in any order)
Selected(db, f) ==
    LET S == {i \in 1..Len(db) : Where(db[i], f)}
        n == Cardinality(S)
    IN  {p \in [1..n -> S] :
            /\ \A i, j \in 1..n : i # j => p[i] # p[j]
            /\ \A i, j \in 1..n : i < j => OrderBy(db[p[i]], db[p[j]])}

\* mutant: the two parameters bound in the other order (LIMIT offset OFFSET limit)
LimitOffsetSwapped(db, p, limit, offset) ==
    [k \in 1..Min(offset, IF Len(p) > limit THEN Len(p) - limit ELSE 0)
        |-> db[p[k + limit]]]

\* LIMIT limit OFFSET offset of the rows delivered in the order p
LimitOffset(db, p, limit, offset) ==
    [k \in 1..Min(limit, IF Len(p) > offset THEN Len(p) - offset ELSE 0)
        |-> db[p[k + offset]]]

\* query_logs: every list it can return; LIMIT limit OFFSET offset of an order
query_logs(db, f, limit, offset) ==
    {LimitOffset(db, p, limit, offset) : p \in Selected(db, f)}

\* the default of query_logs' limit, and the limit get_conversation_logs passes
DefaultLimit == 1000
ConversationLimit == 10000

get_conversation_logs(db, conversation_id) ==
    query_logs(db, Filter(conversation_id, None, None, None, NoTime, NoTime),
               ConversationLimit, 0)

\* a text that nests arrays deeper than the interpreter's recursion limit
DeeplyNested == "[[[[[[[[..."

\* a str value
Str(text) == [type |-> "str", text |-> text]

\* json.loads, on the texts the column can hold in the model: the value, or
\* the exception it raises
json_loads(text) ==
    CASE text = "{}" -> [raised |-> None, value |-> EmptyDict]
      [] text = "{\"coherence\": 1}" -> [raised |-> None, value |-> Scores]
      [] text = "[]" -> [raised |-> None, value |-> List({})]
      [] text = "[1]" -> [raised |-> None, value |-> List({1})]
      [] text = "null" -> [raised |-> None, value |-> PyNone]
      [] text = DeeplyNested -> [raised |-> "RecursionError", value |-> PyNone]
      [] OTHER -> [raised |-> "JSONDecodeError", value |-> PyNone]

\* the value of a TEXT column in dict(row): None for NULL, else the str
Column(v) == IF v = None THEN PyNone ELSE Str(v)

\* if log_dict.get(key): try json.loads except (JSONDecodeError, TypeError)
ParseColumn(v, default) ==
    IF v = None \/ v = ""
    THEN [raised |-> None, value |-> Column(v)]
    ELSE IF json_loads(v).raised \in {"JSONDecodeError", "TypeError"}
         THEN [raised |-> None, value |-> default]
         ELSE json_loads(v)

\* the "Parse JSON fields" part of query_logs, for one row: the two decoded
\* entries of log_dict, or the exception that leaves query_logs
ParseJson(row) ==
    LET m == ParseColumn(row.metadata, EmptyDict)
        s == ParseColumn(row.evaluation_scores, PyNone)
    IN  [raised |-> IF m.raised # None THEN m.raised ELSE s.raised,
         metadata |-> m.value, evaluation_scores |-> s.value]

RECURSIVE SumOver(_, _)
\* the sum of col[i] over the rows i of S
SumOver(col, S) ==
    IF S = {} THEN 0
    ELSE LET i == CHOOSE i \in S : TRUE
         IN  col[i] + SumOver(col, S \ {i})

RECURSIVE GCD(_, _)
GCD(a, b) == IF b = 0 THEN a ELSE GCD(b, a % b)

\* a REAL that is the quotient of two naturals, in lowest terms
Quotient(a, b) == [num |-> a \div GCD(a, b), den |-> b \div GCD(a, b)]

\* SUM(col) and AVG(col) over the rows S: NULL when no row of S has a value
SqlSum(db, S, col) ==
    LET V == {i \in S : db[i][col] # NoNumber}
    IN  IF V = {} THEN NoNumber
        ELSE Number(SumOver([i \in V |-> db[i][col][1]], V))

SqlAvg(db, S, col) ==
    LET V == {i \in S : db[i][col] # NoNumber}
    IN  IF V = {} THEN NoNumber
        ELSE Number(Quotient(SumOver([i \in V |-> db[i][col][1]], V),
                             Cardinality(V)))

\* GROUP BY col with COUNT(*): a dict from the values present to their counts
GroupCount(db, S, col) ==
    [v \in {db[i][col] : i \in S} |-> Cardinality({i \in S : db[i][col] = v})]

\* x or 0, and x or 0.0
OrZero(x) == IF x = NoNumber \/ x = Number(0) THEN Number(0) ELSE x
OrZeroReal(x) ==
    IF x = NoNumber \/ x[1].num = 0 THEN Number(Quotient(0, 1)) ELSE x

\* mutant: the four aggregates returned as fetched, without `or 0`
get_statistics_as_fetched(db, start_time, end_time) ==
    LET f == Filter(None, None, None, None, start_time, end_time)
        where == {i \in 1..Len(db) : Where(db[i], f)}
        counted == {i \in where : db[i].token_count_input # NoNumber}
    IN  [total_logs |-> Cardinality(where),
         by_category |-> GroupCount(db, where, "category"),
         by_severity |-> GroupCount(db, where, "severity"),
         total_input_tokens |-> SqlSum(db, counted, "token_count_input"),
         total_output_tokens |-> SqlSum(db, counted, "token_count_output"),
         total_cost_usd |-> SqlSum(db, counted, "cost_usd"),
         avg_latency_ms |-> SqlAvg(db, counted, "latency_ms")]

\* mutant: the aggregates taken over every row of the range
get_statistics_over_all(db, start_time, end_time) ==
    LET f == Filter(None, None, None, None, start_time, end_time)
        where == {i \in 1..Len(db) : Where(db[i], f)}
    IN  [total_logs |-> Cardinality(where),
         by_category |-> GroupCount(db, where, "category"),
         by_severity |-> GroupCount(db, where, "severity"),
         total_input_tokens |-> OrZero(SqlSum(db, where, "token_count_input")),
         total_output_tokens |-> OrZero(SqlSum(db, where, "token_count_output")),
         total_cost_usd |-> OrZero(SqlSum(db, where, "cost_usd")),
         avg_latency_ms |-> OrZeroReal(SqlAvg(db, where, "latency_ms"))]

\* LogStorage.get_statistics: the counts over the rows of the time range, the
\* sums and the average over those of them with token_count_input IS NOT NULL
\* (cost_usd and latency_ms are whole numbers of a small unit here)
get_statistics(db, start_time, end_time) ==
    LET f == Filter(None, None, None, None, start_time, end_time)
        where == {i \in 1..Len(db) : Where(db[i], f)}
        counted == {i \in where : db[i].token_count_input # NoNumber}
    IN  [total_logs |-> Cardinality(where),
         by_category |-> GroupCount(db, where, "category"),
         by_severity |-> GroupCount(db, where, "severity"),
         total_input_tokens |-> OrZero(SqlSum(db, counted, "token_count_input")),
         total_output_tokens |-> OrZero(SqlSum(db, counted, "token_count_output")),
         total_cost_usd |-> OrZero(SqlSum(db, counted, "cost_usd")),
         avg_latency_ms |-> OrZeroReal(SqlAvg(db, counted, "latency_ms"))]

\* MAX(timestamp) of the rows S: the greatest text
MaxTimestamp(db, S) ==
    CHOOSE x \in {db[i].timestamp : i \in S} :
        \A i \in S : TextLeq(db[i].timestamp, x)

\* the orders in which ORDER BY MAX(timestamp) DESC LIMIT ? can return the
\* groups G of a GROUP BY conversation_id; a negative limit is no limit
GroupsLatestFirst(db, G, limit) ==
    LET rows(c) == {i \in 1..Len(db) : db[i].conversation_id = c}
        n == Cardinality(G)
        k == IF limit < 0 THEN n ELSE Min(limit, n)
    IN  {[i \in 1..k |-> p[i]] :
            p \in {q \in [1..n -> G] :
                      /\ \A i, j \in 1..n : i # j => q[i] # q[j]
                      /\ \A i, j \in 1..n :
                            i < j => TextLeq(MaxTimestamp(db, rows(q[j])),
                                             MaxTimestamp(db, rows(q[i])))}}

\* mutant: the statement without WHERE conversation_id IS NOT NULL
get_unique_conversation_ids_with_null(db, limit) ==
    GroupsLatestFirst(db, {db[i].conversation_id : i \in 1..Len(db)}, limit)

\* LogStorage.get_unique_conversation_ids: the lists the statement can return
get_unique_conversation_ids(db, limit) ==
    GroupsLatestFirst(db, {db[i].conversation_id : i \in 1..Len(db)} \ {None},
                      limit)

\* the default of limit
DefaultIdLimit == 100

\* a read of the store by the query layer (query_logs, get_conversation_logs,
\* get_statistics, get_unique_conversation_ids, get_unique_model_names):
\* connect, SELECT, close; it raises when the storage is down
Read(op) ==
    /\ last' = IF storage_up THEN Returned(op, TRUE) ELSE Raised(op)
    /\ UNCHANGED <<ai_logs, schema, conversation_id_ctx, logger, storage_up,
                   pc, entry, script>>
    /\ UNCHANGED globals

ReadOps ==
    {"query_logs", "get_conversation_logs", "get_statistics",
     "get_unique_conversation_ids", "get_unique_model_names"}

-----------------------------------------------------------------------------
(* The state after AILogger(...) has been constructed on a new file *)

Constructed == [op |-> "__init__", outcome |-> "returned", io |-> TRUE]

\* the default logger is unset and the environment names no configuration
NoRef == 0
NoEnviron == [AI_LOG_DB_PATH |-> None, AI_LOG_MIN_SEVERITY |-> None]
NoGlobal ==
    /\ _ai_logger = NoRef /\ instances = <<>> /\ environ = NoEnviron
    /\ path_exists = TRUE

\* no test script runs
NoScript == [at |-> "none", c |-> None, n |-> 0, logged |-> 0]

InitWith(loggers, ambients) ==
    /\ ai_logs = <<>>
    /\ schema = SchemaObjects
    /\ conversation_id_ctx \in [Contexts -> ambients]
    /\ logger \in loggers
    /\ storage_up = TRUE
    /\ pc = [t \in Contexts |-> "idle"]
    /\ entry = [t \in Contexts |-> None]
    /\ last = Constructed
    /\ script = NoScript
    /\ NoGlobal

-----------------------------------------------------------------------------
(* SpecGate: one context logs every category at every severity through      *)
(* loggers of every minimum severity and several enabled-category lists     *)

GateLists == {NoList, <<"prompt", "response">>, <<"error">>}

GateLoggers ==
    {AILogger("ai_logs.db", m, l, DefaultMaxLogLength) :
        m \in LogSeverity, l \in GateLists}

GateCategories == {"prompt", "tool_call"}

GateFaults == {"none", "commit"}

InitGate == InitWith(GateLoggers, {None})

GateLog ==
    /\ \E category \in GateCategories, severity \in LogSeverity,
          fault \in GateFaults :
          Log("X", "log", category, severity, None, NoKw, FreshId(ai_logs),
              Epoch, fault)
    /\ UNCHANGED script

NextGate == GateLog \/ StorageDown \/ StorageUp

SpecGate == InitGate /\ [][NextGate]_vars

\* the claim's rank order DEBUG < INFO < WARNING < ERROR < CRITICAL
RankOrder == <<"DEBUG", "INFO", "WARNING", "ERROR", "CRITICAL">>
rank(s) == CHOOSE i \in 1..Len(RankOrder) : RankOrder[i] = s

\* the gate as the claims state it
Gated(severity, category) ==
    \/ rank(severity) < rank(logger.min_severity)
    \/ category \notin {logger.enabled_categories[i] :
                           i \in 1..Len(logger.enabled_categories)}

\* C1: a call log(category C, severity S) adds no row to ai_logs when
\* rank(S) < rank(min_severity) or C is not in enabled_categories, and adds
\* exactly one row otherwise, provided the storage write succeeds.
C1_GatingIsTotal ==
    [][\A category \in GateCategories, severity \in LogSeverity, fault \in GateFaults :
          Log("X", "log", category, severity, None, NoKw, FreshId(ai_logs), Epoch, fault)
          => IF Gated(severity, category)
             THEN Len(ai_logs') = Len(ai_logs)
             ELSE last'.outcome = "returned" => Len(ai_logs') = Len(ai_logs) + 1]_vars

\* a call that passed the gate has stored its row
C1_Witness ==
    /\ last.op = "log" /\ last.outcome = "returned" /\ last.io
    /\ Len(ai_logs) = MaxRows
    /\ logger.min_severity = "WARNING"

-----------------------------------------------------------------------------
(* Spec: every operation of the logger and of the query layer, called from  *)
(* one context, against a storage that comes and goes                       *)

\* loggers under which every wrapper passes the gate and every wrapper fails it
\* (the logger with every category enabled at every threshold is SpecGate's)
OpsLoggers ==
    {AILogger("ai_logs.db", "INFO", <<"prompt", "tool_result", "error">>,
              DefaultMaxLogLength),
     AILogger("ai_logs.db", "INFO", <<"response", "tool_call", "evaluation">>,
              DefaultMaxLogLength),
     AILogger("ai_logs.db", "ERROR", NoList, DefaultMaxLogLength)}

Init == InitWith(OpsLoggers, {None})

OpsSeverities == {"DEBUG", "ERROR"}

OpsLog ==
    /\ \E severity \in OpsSeverities, fault \in GateFaults :
          Log("X", "log", "error", severity, None, NoKw, FreshId(ai_logs),
              Epoch, fault)
    /\ UNCHANGED script

OpsLogPrompt ==
    /\ \E fault \in GateFaults :
          log_prompt("X", "gpt", None, FreshId(ai_logs), Epoch, fault)
    /\ UNCHANGED script

OpsLogResponse ==
    /\ \E fault \in GateFaults :
          log_response("X", "gpt", None, FreshId(ai_logs), Epoch, fault)
    /\ UNCHANGED script

OpsLogToolCall ==
    /\ \E fault \in GateFaults :
          log_tool_call("X", None, FreshId(ai_logs), Epoch, fault)
    /\ UNCHANGED script

OpsLogToolResult ==
    /\ \E success \in BOOLEAN, fault \in GateFaults :
          log_tool_result("X", success, None, FreshId(ai_logs), Epoch, fault)
    /\ UNCHANGED script

OpsLogEvaluation ==
    /\ \E fault \in GateFaults :
          log_evaluation("X", None, FreshId(ai_logs), Epoch, fault)
    /\ UNCHANGED script

OpsSet == set_conversation_id("X", "conv-1") /\ UNCHANGED script

OpsClear == clear_conversation_id("X") /\ UNCHANGED script

AILogger_init_db == _init_db("AILogger._init_db")

LogStorage_init_db == _init_db("LogStorage._init_db")

QueryLogs == Read("query_logs")

GetConversationLogs == Read("get_conversation_logs")

GetStatistics == Read("get_statistics")

GetUniqueConversationIds == Read("get_unique_conversation_ids")

GetUniqueModelNames == Read("get_unique_model_names")

Next ==
    \/ OpsLog \/ OpsLogPrompt \/ OpsLogResponse \/ OpsLogToolCall
    \/ OpsLogToolResult \/ OpsLogEvaluation
    \/ OpsSet \/ OpsClear
    \/ AILogger_init_db \/ LogStorage_init_db
    \/ QueryLogs \/ GetConversationLogs \/ GetStatistics
    \/ GetUniqueConversationIds \/ GetUniqueModelNames
    \/ StorageDown \/ StorageUp

Spec == Init /\ [][Next]_vars

\* what the claim says of a call that fails the gate
Quiet ==
    /\ last'.outcome = "returned"
    /\ ~last'.io
    /\ ai_logs' = ai_logs
    /\ conversation_id_ctx' = conversation_id_ctx

\* C7: a log call, made directly or through log_prompt, log_response,
\* log_tool_call, log_tool_result or log_evaluation, that fails the gate
\* returns normally, does not access the storage and leaves the table and the
\* ambient conversation id as they were, also while the storage is unavailable.
C7_GatedCallIsQuiet ==
    [][\A fault \in GateFaults :
          /\ \A severity \in OpsSeverities :
                Gated(severity, "error")
                /\ Log("X", "log", "error", severity, None, NoKw,
                       FreshId(ai_logs), Epoch, fault) => Quiet
          /\ Gated("INFO", "prompt")
                /\ log_prompt("X", "gpt", None, FreshId(ai_logs), Epoch, fault)
                => Quiet
          /\ Gated("INFO", "response")
                /\ log_response("X", "gpt", None, FreshId(ai_logs), Epoch, fault)
                => Quiet
          /\ Gated("INFO", "tool_call")
                /\ log_tool_call("X", None, FreshId(ai_logs), Epoch, fault)
                => Quiet
          /\ Gated("INFO", "tool_result")
                /\ log_tool_result("X", TRUE, None, FreshId(ai_logs), Epoch, fault)
                => Quiet
          /\ Gated("ERROR", "tool_result")
                /\ log_tool_result("X", FALSE, None, FreshId(ai_logs), Epoch, fault)
                => Quiet
          /\ Gated("INFO", "evaluation")
                /\ log_evaluation("X", None, FreshId(ai_logs), Epoch, fault)
                => Quiet]_vars

\* a wrapper's gated call has returned while the storage is unavailable, with
\* a row in the table and an ambient conversation id set
C7_Witness ==
    /\ last.op = "log_tool_call" /\ last.outcome = "returned" /\ ~last.io
    /\ ~storage_up
    /\ Len(ai_logs) > 0
    /\ conversation_id_ctx["X"] = "conv-1"

\* C8: the log is append-only. Whatever operation takes a step, every row of
\* ai_logs stays where it is with every column unchanged; the table changes
\* only by a log call that returned after its write, which adds one row.
C8_AppendOnly ==
    [][\/ ai_logs' = ai_logs
       \/ /\ Len(ai_logs') = Len(ai_logs) + 1
          /\ SubSeq(ai_logs', 1, Len(ai_logs)) = ai_logs
          /\ last'.op \in LogOps /\ last'.outcome = "returned" /\ last'.io]_vars

\* rows are in the table and the schema has been initialised again since
C8_Witness ==
    /\ Len(ai_logs) = MaxRows
    /\ last.op = "LogStorage._init_db" /\ last.outcome = "returned"

-----------------------------------------------------------------------------
(* SpecConv: one context sets and clears its conversation id and logs with  *)
(* and without an explicit one; uuid4 returns any value; writes can fail    *)

ConvLogger == AILogger("ai_logs.db", "INFO", NoList, DefaultMaxLogLength)

InitConv == InitWith({ConvLogger}, {None})

\* the conversation_id argument of log: None when the caller passes none
ConvArgs == {None} \cup ConvIds

ConvLog ==
    /\ \E conversation_id \in ConvArgs, id \in UUIDs, fault \in Faults :
          Log("X", "log", "prompt", "INFO", conversation_id, NoKw, id, Epoch,
              fault)
    /\ UNCHANGED script

ConvLogDebug ==
    /\ \E conversation_id \in ConvArgs, id \in UUIDs, fault \in Faults :
          Log("X", "log", "prompt", "DEBUG", conversation_id, NoKw, id, Epoch,
              fault)
    /\ UNCHANGED script

ConvSet ==
    /\ \E conversation_id \in ConvIds : set_conversation_id("X", conversation_id)
    /\ UNCHANGED script

ConvClear == clear_conversation_id("X") /\ UNCHANGED script

NextConv ==
    ConvLog \/ ConvLogDebug \/ ConvSet \/ ConvClear \/ StorageDown \/ StorageUp

SpecConv == InitConv /\ [][NextConv]_vars

\* the row a step has added
Stored == ai_logs'[Len(ai_logs')]

\* C4: a log call that passes the gate stores the conversation_id argument
\* when the caller passes one (any value but None, the empty string included),
\* whatever the ambient value is; it stores the ambient value of the calling
\* context when the caller passes none; and null when both are absent.
C4_ExplicitIdWins ==
    [][\A conversation_id \in ConvArgs, id \in UUIDs, fault \in Faults :
          Log("X", "log", "prompt", "INFO", conversation_id, NoKw, id, Epoch,
              fault)
          /\ Len(ai_logs') = Len(ai_logs) + 1
          => Stored.conversation_id =
                IF conversation_id # None THEN conversation_id
                ELSE conversation_id_ctx["X"]]_vars

\* C6: when the write of a log call that passed the gate fails (connect,
\* INSERT or commit raises), the call raises, ai_logs has no row of the event,
\* and the ambient conversation id and the logger's configuration are as
\* before.
C6_FailedWritePropagates ==
    [][\A conversation_id \in ConvArgs, id \in UUIDs, fault \in Faults :
          (~storage_up \/ fault # "none" \/ id \in Ids(ai_logs))
          /\ ~Gated("INFO", "prompt")
          /\ Log("X", "log", "prompt", "INFO", conversation_id, NoKw, id, Epoch,
                 fault)
          => /\ last'.outcome = "raised"
             /\ ai_logs' = ai_logs
             /\ conversation_id_ctx' = conversation_id_ctx
             /\ logger' = logger]_vars

\* a write has failed with the storage reachable, rows stored and an ambient
\* conversation id set
C6_Witness ==
    /\ last.op = "log" /\ last.outcome = "raised"
    /\ storage_up
    /\ Len(ai_logs) > 0
    /\ conversation_id_ctx["X"] = "conv-1"

\* C9: no two rows of ai_logs share an id, also when the calls that wrote
\* them had identical content.
C9_IdsAreDistinct ==
    \A i, j \in 1..Len(ai_logs) : i # j => ai_logs[i].id # ai_logs[j].id

\* the table is full of rows that differ in nothing but their id, and a call
\* whose id was taken has been refused
C9_Witness ==
    /\ Len(ai_logs) = MaxRows
    /\ \A i, j \in 1..Len(ai_logs) :
          [ai_logs[i] EXCEPT !.id = 0] = [ai_logs[j] EXCEPT !.id = 0]
    /\ last.op = "log" /\ last.outcome = "raised"
    /\ storage_up

-----------------------------------------------------------------------------
(* SpecCtx: two contexts run at once. Each sets its own conversation id,    *)
(* logs without passing one (in two steps each), clears and starts again    *)

\* the id each context sets, and the model name that marks the rows it writes
IdOf == [t \in Contexts |-> IF t = "X" THEN "conv-1" ELSE "conv-2"]
ModelOf == [t \in Contexts |-> IF t = "X" THEN "model-x" ELSE "model-y"]

InitCtx ==
    /\ ai_logs = <<>>
    /\ schema = SchemaObjects
    /\ conversation_id_ctx = [t \in Contexts |-> None]
    /\ logger = ConvLogger
    /\ storage_up = TRUE
    /\ pc = [t \in Contexts |-> "idle"]
    /\ entry = [t \in Contexts |-> None]
    /\ last = Constructed
    /\ script = [t \in Contexts |-> "start"]
    /\ NoGlobal

\* uuid4 in a context that logs beside another: a value no row and no entry has
FreshBeside(t) ==
    Len(ai_logs) + 1 + Cardinality({u \in Contexts : pc[u] = "store"})

CtxSetId(t) ==
    /\ script[t] = "start"
    /\ set_conversation_id(t, IdOf[t])
    /\ script' = [script EXCEPT ![t] = "live"]

CtxLogBegin(t) ==
    /\ script[t] = "live"
    /\ \E severity \in {"DEBUG", "INFO"} :
          LogBegin(t, "prompt", severity, None, WithModel(ModelOf[t]),
                   FreshBeside(t), Epoch)
    /\ UNCHANGED script

CtxLogStore(t) == LogStore(t, "none") /\ UNCHANGED script

CtxClear(t) ==
    /\ script[t] = "live"
    /\ clear_conversation_id(t)
    /\ script' = [script EXCEPT ![t] = "start"]

NextCtx ==
    \E t \in Contexts :
        CtxSetId(t) \/ CtxLogBegin(t) \/ CtxLogStore(t) \/ CtxClear(t)

SpecCtx == InitCtx /\ [][NextCtx]_vars

\* every row a context wrote holds the id that context set
RowsCarryOwnId ==
    \A i \in 1..Len(ai_logs), t \in Contexts :
        ai_logs[i].model_name = ModelOf[t] => ai_logs[i].conversation_id = IdOf[t]

\* C2: contexts X and Y set different conversation ids and log without passing
\* one. Under every interleaving every row written by X holds X's id and every
\* row written by Y holds Y's, and a set or clear in one context never changes
\* the value the other context reads.
C2_ContextIsolation ==
    [][/\ \A t, u \in Contexts :
             u # t /\ (set_conversation_id(u, IdOf[u]) \/ clear_conversation_id(u))
             => CtxGet(conversation_id_ctx', t) = CtxGet(conversation_id_ctx, t)
       /\ RowsCarryOwnId']_vars

\* both contexts have written a row each, X's entry built before Y set its id
\* and stored after
C2_Witness ==
    /\ Len(ai_logs) = MaxRows
    /\ ai_logs[1].model_name = "model-y"
    /\ ai_logs[MaxRows].model_name = "model-x"
    /\ conversation_id_ctx["X"] = "conv-1"
    /\ conversation_id_ctx["Y"] = None

-----------------------------------------------------------------------------
(* SpecGlobal: two threads call get_ai_logger() with the default logger     *)
(* unset, statement by statement, while the environment may change          *)

Environs ==
    [AI_LOG_DB_PATH : {None, "/data/ai_logs.db"},
     AI_LOG_MIN_SEVERITY : {None, "DEBUG", "verbose"}]

\* os.getenv(key, default)
getenv(env, key, default) == IF env[key] = None THEN default ELSE env[key]

\* LogSeverity[min_severity_str], INFO on KeyError
min_severity(min_severity_str) ==
    IF min_severity_str \in LogSeverity THEN min_severity_str ELSE "INFO"

InitGlobal ==
    /\ ai_logs = <<>>
    /\ schema = {}
    /\ conversation_id_ctx = [t \in Contexts |-> None]
    /\ logger = ConvLogger
    /\ storage_up = TRUE
    /\ pc = [t \in Contexts |-> "idle"]
    /\ entry = [t \in Contexts |-> None]
    /\ last = Constructed
    /\ script = {}
    /\ _ai_logger = NoRef
    /\ instances = <<>>
    /\ environ \in Environs
    /\ path_exists = TRUE

\* if _ai_logger is None:
GetTest(t) ==
    /\ pc[t] = "idle"
    /\ pc' = [pc EXCEPT ![t] =
                 IF _ai_logger = NoRef THEN "getenv_path" ELSE "return"]
    /\ UNCHANGED <<ai_logs, schema, conversation_id_ctx, logger, storage_up,
                   entry, last, script, globals>>

\* storage_path = os.getenv('AI_LOG_DB_PATH', './ai_logs.db')
GetEnvPath(t) ==
    /\ pc[t] = "getenv_path"
    /\ entry' = [entry EXCEPT ![t] =
                    [storage_path |-> getenv(environ, "AI_LOG_DB_PATH",
                                             "./ai_logs.db"),
                     min_severity_str |-> None, new |-> NoRef]]
    /\ pc' = [pc EXCEPT ![t] = "getenv_severity"]
    /\ UNCHANGED <<ai_logs, schema, conversation_id_ctx, logger, storage_up,
                   last, script, globals>>

\* min_severity_str = os.getenv('AI_LOG_MIN_SEVERITY', 'INFO')
GetEnvSeverity(t) ==
    /\ pc[t] = "getenv_severity"
    /\ entry' = [entry EXCEPT ![t].min_severity_str =
                    getenv(environ, "AI_LOG_MIN_SEVERITY", "INFO")]
    /\ pc' = [pc EXCEPT ![t] = "construct"]
    /\ UNCHANGED <<ai_logs, schema, conversation_id_ctx, logger, storage_up,
                   last, script, globals>>

\* AILogger(storage_path=storage_path, min_severity=min_severity): a new
\* instance, whose __init__ runs _init_db
Construct(t) ==
    /\ pc[t] = "construct"
    /\ instances' =
          Append(instances,
                 AILogger(entry[t].storage_path,
                          min_severity(entry[t].min_severity_str),
                          NoList, DefaultMaxLogLength))
    /\ ai_logs' = CreateTableIfNotExists(schema, ai_logs)
    /\ schema' = schema \cup SchemaObjects
    /\ entry' = [entry EXCEPT ![t].new = Len(instances) + 1]
    /\ pc' = [pc EXCEPT ![t] = "assign"]
    /\ UNCHANGED <<conversation_id_ctx, logger, storage_up, last, script,
                   _ai_logger, environ, path_exists>>

\* _ai_logger = <the new instance>
Assign(t) ==
    /\ pc[t] = "assign"
    /\ _ai_logger' = entry[t].new
    /\ entry' = [entry EXCEPT ![t] = None]
    /\ pc' = [pc EXCEPT ![t] = "return"]
    /\ UNCHANGED <<ai_logs, schema, conversation_id_ctx, logger, storage_up,
                   last, script, instances, environ, path_exists>>

\* return _ai_logger; script collects the references the callers were given
Return(t) ==
    /\ pc[t] = "return"
    /\ last' = Returned("get_ai_logger", _ai_logger)
    /\ script' = script \cup {_ai_logger}
    /\ pc' = [pc EXCEPT ![t] = "idle"]
    /\ UNCHANGED <<ai_logs, schema, conversation_id_ctx, logger, storage_up,
                   entry, globals>>

\* the process environment changes
SetEnv ==
    /\ environ' \in Environs \ {environ}
    /\ UNCHANGED <<ai_logs, schema, conversation_id_ctx, logger, storage_up,
                   pc, entry, last, script, _ai_logger, instances, path_exists>>

NextGlobal ==
    \/ \E t \in Contexts :
          \/ GetTest(t) \/ GetEnvPath(t) \/ GetEnvSeverity(t)
          \/ Construct(t) \/ Assign(t) \/ Return(t)
    \/ SetEnv

SpecGlobal == InitGlobal /\ [][NextGlobal]_vars

\* C3: with the default logger unset and no set_ai_logger call, under every
\* interleaving of get_ai_logger() calls at most one AILogger is constructed,
\* every call returns that one instance, and a call that finds the default
\* logger set does not read the environment.
C3_ExactlyOnce ==
    [][/\ Len(instances') <= 1
       /\ Cardinality(script') <= 1
       /\ \A t \in Contexts :
             _ai_logger # NoRef /\ GetTest(t) => pc'[t] = "return"]_vars

-----------------------------------------------------------------------------
(* SpecScenario: the script of test_logger for every conversation id c and  *)
(* every number n of events: set(c), n events, clear, one more event, then  *)
(* get_conversation_logs(c)                                                 *)

\* logger = AILogger(storage_path=db_path, min_severity=LogSeverity.DEBUG)
TestLogger == AILogger("test.db", "DEBUG", NoList, DefaultMaxLogLength)

InitScenario ==
    /\ ai_logs = <<>>
    /\ schema = SchemaObjects
    /\ conversation_id_ctx = [t \in Contexts |-> None]
    /\ logger = TestLogger
    /\ storage_up = TRUE
    /\ pc = [t \in Contexts |-> "idle"]
    /\ entry = [t \in Contexts |-> None]
    /\ last = Constructed
    /\ script \in [at : {"set"}, c : ConvIds, n : 0..(MaxRows - 1), logged : {0}]
    /\ NoGlobal

\* one of the six calls of the test, without a conversation_id argument
TestEvent ==
    LET id == FreshId(ai_logs)
    IN  \/ log_prompt("X", "test-model", None, id, Epoch, "none")
        \/ log_response("X", "test-model", None, id, Epoch, "none")
        \/ log_tool_call("X", None, id, Epoch, "none")
        \/ log_tool_result("X", TRUE, None, id, Epoch, "none")
        \/ log_evaluation("X", None, id, Epoch, "none")
        \/ Log("X", "log", "error", "ERROR", None, NoKw, id, Epoch, "none")

ScenarioSet ==
    /\ script.at = "set"
    /\ set_conversation_id("X", script.c)
    /\ script' = [script EXCEPT !.at = "log"]

ScenarioLog ==
    /\ script.at = "log"
    /\ script.logged < script.n
    /\ TestEvent
    /\ script' = [script EXCEPT !.logged = @ + 1]

ScenarioClear ==
    /\ script.at = "log"
    /\ script.logged = script.n
    /\ clear_conversation_id("X")
    /\ script' = [script EXCEPT !.at = "after"]

ScenarioLogAfter ==
    /\ script.at = "after"
    /\ TestEvent
    /\ script' = [script EXCEPT !.at = "query"]

\* conv_logs = storage.get_conversation_logs(c)
ScenarioQuery ==
    /\ script.at = "query"
    /\ \E conv_logs \in get_conversation_logs(ai_logs, script.c) :
          last' = Returned("get_conversation_logs", conv_logs)
    /\ script' = [script EXCEPT !.at = "done"]
    /\ UNCHANGED <<ai_logs, schema, conversation_id_ctx, logger, storage_up,
                   pc, entry, globals>>

NextScenario ==
    ScenarioSet \/ ScenarioLog \/ ScenarioClear \/ ScenarioLogAfter
    \/ ScenarioQuery

SpecScenario == InitScenario /\ [][NextScenario]_vars

\* C5: the events logged between set(c) and clear store conversation_id c,
\* the event logged after the clear stores null, and get_conversation_logs(c)
\* then returns exactly the n rows logged before the clear.
C5_SetLogClear ==
    /\ \A i \in 1..Len(ai_logs) :
          ai_logs[i].conversation_id = IF i <= script.n THEN script.c ELSE None
    /\ script.at = "done" =>
          /\ Len(last.io) = script.n
          /\ {last.io[k] : k \in 1..Len(last.io)}
                = {ai_logs[i] : i \in 1..script.n}

-----------------------------------------------------------------------------
(* SpecQuery: events of two categories, with and without a conversation id, *)
(* are logged at instants in any order, and query_logs reads them back      *)

\* the table holds one row more here, for three events in one conversation
MaxEvents == MaxRows + 1

\* three instants t1 < t2 < t3, in both shapes isoformat() gives
T1 == [sec |-> 0, usec |-> 0, tz |-> "utc"]
T2 == [sec |-> 0, usec |-> 500000, tz |-> "utc"]
T3 == [sec |-> 1, usec |-> 0, tz |-> "utc"]
QueryInstants == {T1, T2, T3}

InitQuery == InitWith({ConvLogger}, {None})

\* the events logged: a prompt and a response of conversation conv-1, and a
\* prompt outside every conversation
QueryEvents ==
    {[category |-> "prompt", conversation_id |-> "conv-1"],
     [category |-> "response", conversation_id |-> "conv-1"],
     [category |-> "prompt", conversation_id |-> None]}

QueryLog ==
    /\ \E now \in QueryInstants, e \in QueryEvents :
          LogCall("X", "log", e.category, "INFO", e.conversation_id, NoKw,
                  FreshId(ai_logs), now, "none")
    /\ Len(ai_logs') <= MaxEvents
    /\ UNCHANGED script

QueryFilters ==
    {Filter(conversation_id, category, None, None, NoTime, NoTime) :
        conversation_id \in {None, "conv-1"}, category \in {None, "prompt"}}
    \cup {Filter(None, None, "INFO", None, T2, T3)}

\* logs = storage.query_logs(...): the arguments and the list returned
QueryRun ==
    /\ \E f \in QueryFilters :
          \E logs \in query_logs(ai_logs, f, DefaultLimit, 0) :
              last' = Returned("query_logs", [filter |-> f, logs |-> logs])
    /\ UNCHANGED <<ai_logs, schema, conversation_id_ctx, logger, storage_up,
                   pc, entry, script, globals>>

NextQuery == QueryLog \/ QueryRun

SpecQuery == InitQuery /\ [][NextQuery]_vars

\* the instant a stored timestamp denotes
InstantOf ==
    [text \in {isoformat(dt) : dt \in Instants} |->
        CHOOSE dt \in Instants : isoformat(dt) = text]

TimeOf(row) == Micro(InstantOf[row.timestamp])

ConvFilter == Filter("conv-1", None, None, None, NoTime, NoTime)
ConvPromptFilter == Filter("conv-1", "prompt", None, None, NoTime, NoTime)
ConvRows == {i \in 1..Len(ai_logs) : ai_logs[i].conversation_id = "conv-1"}

\* C10: whatever the table holds and whatever the filters are, query_logs
\* returns its rows most recent first; three events of one conversation at
\* t1 < t2 < t3 come back as [t3, t2, t1]; and with a category filter that
\* only one of the conversation's events matches, exactly that row comes back.
C10_MostRecentFirst ==
    last.op = "query_logs" =>
        LET f == last.io.filter
            logs == last.io.logs
        IN  /\ \A i, j \in 1..Len(logs) :
                  i < j => TimeOf(logs[i]) >= TimeOf(logs[j])
            /\ (/\ f = ConvFilter
                /\ Cardinality(ConvRows) = 3
                /\ \A i, j \in ConvRows : i # j => TimeOf(ai_logs[i]) # TimeOf(ai_logs[j]))
               => /\ Len(logs) = 3
                  /\ {logs[k] : k \in 1..3} = {ai_logs[i] : i \in ConvRows}
                  /\ TimeOf(logs[1]) > TimeOf(logs[2])
                  /\ TimeOf(logs[2]) > TimeOf(logs[3])
            /\ \A i \in ConvRows :
                  (/\ f = ConvPromptFilter
                   /\ \A j \in ConvRows : ai_logs[j].category = "prompt" <=> j = i)
                  => logs = <<ai_logs[i]>>

\* the conversation's three events were stored in the order t2, t3, t1 and
\* query_logs(conversation_id="conv-1") has returned them as [t3, t2, t1]
C10_Witness ==
    /\ last.op = "query_logs"
    /\ last.io.filter = ConvFilter
    /\ Len(ai_logs) = 3
    /\ ConvRows = {1, 2, 3}
    /\ ai_logs[1].timestamp = isoformat(T2)
    /\ ai_logs[2].timestamp = isoformat(T3)
    /\ ai_logs[3].timestamp = isoformat(T1)
    /\ ai_logs[1].category = "prompt"
    /\ ai_logs[2].category = "response"
    /\ last.io.logs = <<ai_logs[2], ai_logs[1], ai_logs[3]>>

-----------------------------------------------------------------------------
(* SpecFilter: one context sets conversation ids (the empty one included)   *)
(* and logs prompts and failed tool results at two instants; query_logs and *)
(* get_conversation_logs read them back under every kind of filter          *)

InitFilter == InitWith({ConvLogger}, {None})

FilterSet ==
    /\ \E c \in ConvIds : set_conversation_id("X", c)
    /\ UNCHANGED script

FilterLog ==
    /\ \E now \in {T1, T2} :
          \/ log_prompt("X", "m", None, FreshId(ai_logs), now, "none")
          \/ log_tool_result("X", FALSE, None, FreshId(ai_logs), now, "none")
    /\ UNCHANGED script

FilterFilters ==
    {NoFilter,
     Filter("conv-1", None, None, None, NoTime, NoTime),
     Filter("", None, None, None, NoTime, NoTime),
     Filter(None, "prompt", None, None, NoTime, NoTime),
     Filter(None, None, "ERROR", None, NoTime, NoTime),
     Filter(None, None, None, "m", NoTime, NoTime),
     Filter("conv-1", "prompt", "INFO", "m", NoTime, NoTime),
     Filter(None, None, None, None, T2, NoTime),
     Filter(None, None, None, None, NoTime, T1),
     Filter("conv-1", None, None, None, T1, T2)}

\* logs = storage.query_logs(...) with limit and offset left at their defaults
FilterQuery ==
    /\ \E f \in FilterFilters :
          \E logs \in query_logs(ai_logs, f, DefaultLimit, 0) :
              last' = Returned("query_logs", [filter |-> f, logs |-> logs])
    /\ UNCHANGED <<ai_logs, schema, conversation_id_ctx, logger, storage_up,
                   pc, entry, script, globals>>

\* logs = storage.get_conversation_logs(c)
FilterConversation ==
    /\ \E c \in ConvIds \cup {"conv-2"} :
          \E logs \in get_conversation_logs(ai_logs, c) :
              last' = Returned("get_conversation_logs",
                               [conversation_id |-> c, logs |-> logs])
    /\ UNCHANGED <<ai_logs, schema, conversation_id_ctx, logger, storage_up,
                   pc, entry, script, globals>>

NextFilter == FilterSet \/ FilterLog \/ FilterQuery \/ FilterConversation

SpecFilter == InitFilter /\ [][NextFilter]_vars

\* a row satisfies every filter that was supplied (None: not supplied)
Satisfies(row, f) ==
    /\ f.conversation_id # None => row.conversation_id = f.conversation_id
    /\ f.category # None => row.category = f.category
    /\ f.severity # None => row.severity = f.severity
    /\ f.model_name # None => row.model_name = f.model_name
    /\ f.start_time # NoTime => Micro(f.start_time) <= TimeOf(row)
    /\ f.end_time # NoTime => TimeOf(row) <= Micro(f.end_time)

\* the list holds each of the rows once and nothing else
HoldsExactly(logs, rows) ==
    /\ {logs[k] : k \in 1..Len(logs)} = {ai_logs[i] : i \in rows}
    /\ Len(logs) = Cardinality(rows)

\* C11: query_logs with offset 0 and a limit not below the table size returns
\* exactly the rows that satisfy every supplied filter (equality on
\* conversation_id, category, severity, model_name; start_time <= timestamp <=
\* end_time, each bound optional); with no filter, every row.
C11_ExactlyTheMatches ==
    last.op = "query_logs" =>
        HoldsExactly(last.io.logs,
                     {i \in 1..Len(ai_logs) : Satisfies(ai_logs[i], last.io.filter)})

\* C13: get_conversation_logs(c) returns every stored row whose conversation_id
\* is c and no other row, for every conversation id c.
C13_AllOfTheConversation ==
    last.op = "get_conversation_logs" =>
        HoldsExactly(last.io.logs,
                     {i \in 1..Len(ai_logs) :
                         ai_logs[i].conversation_id = last.io.conversation_id})

-----------------------------------------------------------------------------
(* SpecPage: rows are logged, several at one instant; then a reader pages   *)
(* through query_logs with page size k at offsets 0, k, 2k, ... until a     *)
(* page comes back empty. The engine delivers rows of equal timestamp in an *)
(* order of its own, the same in every call on the same table and filter    *)
(* (order below); which order that is, is left open.                        *)

\* the reader has not started
Writing ==
    [at |-> "write", filter |-> NoFilter, limit |-> 0, offset |-> 0,
     order |-> <<>>, pages |-> <<>>]

InitPage ==
    /\ ai_logs = <<>>
    /\ schema = SchemaObjects
    /\ conversation_id_ctx = [t \in Contexts |-> None]
    /\ logger = ConvLogger
    /\ storage_up = TRUE
    /\ pc = [t \in Contexts |-> "idle"]
    /\ entry = [t \in Contexts |-> None]
    /\ last = Constructed
    /\ script = Writing
    /\ NoGlobal

PageLog ==
    /\ script.at = "write"
    /\ \E now \in {T1, T2}, category \in {"prompt", "response"} :
          Log("X", "log", category, "INFO", None, NoKw, FreshId(ai_logs), now,
              "none")
    /\ UNCHANGED script

\* page sizes: small ones, and the default of a call that passes no limit
PageSizes == (1..MaxRows) \cup {DefaultLimit}

PageFilters == {NoFilter, Filter(None, "prompt", None, None, NoTime, NoTime)}

PageStart ==
    /\ script.at = "write"
    /\ \E f \in PageFilters, k \in PageSizes :
          \E order \in Selected(ai_logs, f) :
              script' = [at |-> "paging", filter |-> f, limit |-> k,
                         offset |-> 0, order |-> order, pages |-> <<>>]
    /\ UNCHANGED <<ai_logs, schema, conversation_id_ctx, logger, storage_up,
                   pc, entry, last, globals>>

\* logs = storage.query_logs(..., limit=k, offset=o); the reader keeps the
\* page, and stops at the first empty one
PageFetch ==
    /\ script.at = "paging"
    /\ LET logs == LimitOffset(ai_logs, script.order, script.limit, script.offset)
       IN  /\ logs \in query_logs(ai_logs, script.filter, script.limit,
                                  script.offset)
           /\ last' = Returned("query_logs", TRUE)
           /\ script' =
                 [script EXCEPT
                    !.pages = Append(@, [offset |-> script.offset, logs |-> logs]),
                    !.offset = @ + script.limit,
                    !.at = IF logs = <<>> THEN "done" ELSE "paging"]
    /\ UNCHANGED <<ai_logs, schema, conversation_id_ctx, logger, storage_up,
                   pc, entry, globals>>

PageAgain ==
    /\ script.at = "done"
    /\ script' = Writing
    /\ UNCHANGED <<ai_logs, schema, conversation_id_ctx, logger, storage_up,
                   pc, entry, last, globals>>

NextPage == PageLog \/ PageStart \/ PageFetch \/ PageAgain

SpecPage == InitPage /\ [][NextPage]_vars

\* the full filtered result in the order the engine delivers it
FullResult == [i \in 1..Len(script.order) |-> ai_logs[script.order[i]]]

RECURSIVE Concatenated(_)
\* the pages one after the other
Concatenated(pages) ==
    IF pages = <<>> THEN <<>>
    ELSE Concatenated(SubSeq(pages, 1, Len(pages) - 1)) \o pages[Len(pages)].logs

PageIds(page) == {page.logs[k].id : k \in 1..Len(page.logs)}

-----------------------------------------------------------------------------
(* SpecStats: responses with and without token counts, costs and latencies, *)
(* and tool results with a latency only, are logged at two instants;        *)
(* get_statistics is run over time ranges, one of which matches no row      *)

\* the arguments of a log_response call
ResponseKw(tokens_in, tokens_out, latency, cost) ==
    [NoKw EXCEPT !.model_name = "m",
                 !.token_count_input = tokens_in,
                 !.token_count_output = tokens_out,
                 !.latency_ms = latency, !.cost_usd = cost]

StatsEvents ==
    {[category |-> "response", severity |-> "INFO",
      kw |-> ResponseKw(Number(3), Number(5), Number(100), Number(2))],
     [category |-> "response", severity |-> "INFO",
      kw |-> ResponseKw(Number(1), Number(1), Number(45), NoNumber)],
     [category |-> "response", severity |-> "INFO",
      kw |-> ResponseKw(Number(0), NoNumber, NoNumber, NoNumber)],
     [category |-> "tool_result", severity |-> "ERROR",
      kw |-> [NoKw EXCEPT !.latency_ms = Number(40), !.cost_usd = Number(7)]]}

InitStats == InitWith({ConvLogger}, {None})

StatsLog ==
    /\ \E now \in {T1, T2}, e \in StatsEvents :
          Log("X", "log", e.category, e.severity, None, e.kw, FreshId(ai_logs),
              now, "none")
    /\ UNCHANGED script

\* time ranges: none, from T2, to T1, and from T3 (after every row)
StatsRanges == {<<NoTime, NoTime>>, <<T2, NoTime>>, <<NoTime, T1>>, <<T3, NoTime>>}

\* stats = storage.get_statistics(start_time, end_time)
StatsRun ==
    /\ \E r \in StatsRanges :
          last' = Returned("get_statistics",
                           [start_time |-> r[1], end_time |-> r[2],
                            stats |-> get_statistics(ai_logs, r[1], r[2])])
    /\ UNCHANGED <<ai_logs, schema, conversation_id_ctx, logger, storage_up,
                   pc, entry, script, globals>>

NextStats == StatsLog \/ StatsRun

SpecStats == InitStats /\ [][NextStats]_vars

\* the rows of the inclusive time range of the call, and those of them that
\* have a token count
InRange ==
    {i \in 1..Len(ai_logs) :
        /\ last.io.start_time # NoTime =>
              Micro(last.io.start_time) <= TimeOf(ai_logs[i])
        /\ last.io.end_time # NoTime =>
              TimeOf(ai_logs[i]) <= Micro(last.io.end_time)}

WithTokens == {i \in InRange : ai_logs[i].token_count_input # NoNumber}

StatsKeys ==
    {"total_logs", "by_category", "by_severity", "total_input_tokens",
     "total_output_tokens", "total_cost_usd", "avg_latency_ms"}

\* C14: on an empty table or a time range that matches no row, get_statistics
\* returns all seven keys with total_logs 0, empty by_category and
\* by_severity and zero sums and average, none of them null; the four
\* aggregates are zero as well whenever no row of the range has a token count.
C14_ZeroDefaults ==
    last.op = "get_statistics" =>
        LET stats == last.io.stats
        IN  /\ DOMAIN stats = StatsKeys
            /\ InRange = {} =>
                  /\ stats.total_logs = 0
                  /\ DOMAIN stats.by_category = {}
                  /\ DOMAIN stats.by_severity = {}
            /\ WithTokens = {} =>
                  /\ stats.total_input_tokens = Number(0)
                  /\ stats.total_output_tokens = Number(0)
                  /\ stats.total_cost_usd = Number(0)
                  /\ stats.avg_latency_ms = Number(Quotient(0, 1))

\* rows are stored, and a range after all of them has been asked for
C14_Witness ==
    /\ last.op = "get_statistics"
    /\ Len(ai_logs) = MaxRows
    /\ \E i \in 1..Len(ai_logs) : ai_logs[i].latency_ms = Number(100)
    /\ last.io.start_time = T3
    /\ InRange = {}

\* the values of a column among the rows S that have one
Values(S, col) == {i \in S : ai_logs[i][col] # NoNumber}

Total(S, col) ==
    SumOver([i \in Values(S, col) |-> ai_logs[i][col][1]], Values(S, col))

\* C15: total_logs counts the rows of the inclusive time range, by_category
\* and by_severity partition those rows by their stored values, the token and
\* cost totals are the sums over exactly the rows of the range whose
\* token_count_input is non-null, and avg_latency_ms is the average latency
\* over those same rows.
C15_CountsAndSums ==
    last.op = "get_statistics" =>
        LET stats == last.io.stats
        IN  /\ stats.total_logs = Cardinality(InRange)
            /\ DOMAIN stats.by_category = {ai_logs[i].category : i \in InRange}
            /\ \A c \in DOMAIN stats.by_category :
                  stats.by_category[c] =
                      Cardinality({i \in InRange : ai_logs[i].category = c})
            /\ DOMAIN stats.by_severity = {ai_logs[i].severity : i \in InRange}
            /\ \A v \in DOMAIN stats.by_severity :
                  stats.by_severity[v] =
                      Cardinality({i \in InRange : ai_logs[i].severity = v})
            /\ stats.total_input_tokens =
                  Number(Total(WithTokens, "token_count_input"))
            /\ stats.total_output_tokens =
                  Number(Total(WithTokens, "token_count_output"))
            /\ stats.total_cost_usd = Number(Total(WithTokens, "cost_usd"))
            /\ LET avg == stats.avg_latency_ms[1]
                   n == Cardinality(Values(WithTokens, "latency_ms"))
               IN  IF n = 0 THEN avg.num = 0
                   ELSE avg.num * n = Total(WithTokens, "latency_ms") * avg.den

\* a response with tokens, cost and latency and a tool result with a latency
\* and a cost but no token count lie in the range asked for
C15_Witness ==
    /\ last.op = "get_statistics"
    /\ Cardinality(InRange) = 2
    /\ Cardinality(WithTokens) = 1
    /\ last.io.stats.total_input_tokens = Number(3)
    /\ last.io.stats.total_cost_usd = Number(2)
    /\ last.io.stats.avg_latency_ms = Number(Quotient(100, 1))
    /\ \E i \in InRange : ai_logs[i].category = "tool_result"

\* C20: get_ai_logger with AI_LOG_MIN_SEVERITY set to a name outside
\* LogSeverity raises: it constructs no logger and installs no global logger
\* (a call is at "assign" once it has constructed the logger it will install).
C20_UnknownSeverityRejected ==
    \A t \in Contexts :
        pc[t] = "assign" => entry[t].min_severity_str \in LogSeverity

-----------------------------------------------------------------------------
(* SpecSchema: nothing is at the storage path at first. Context X constructs *)
(* loggers and logs, context Y constructs stores; _init_db runs statement by *)
(* statement, so the two interleave; os.unlink removes the file when no call *)
(* is under way                                                              *)

NoInstances == [logger |-> FALSE, storage |-> FALSE, logged |-> 0]

InitSchema ==
    /\ ai_logs = <<>>
    /\ schema = {}
    /\ conversation_id_ctx = [t \in Contexts |-> None]
    /\ logger = ConvLogger
    /\ storage_up = TRUE
    /\ pc = [t \in Contexts |-> "idle"]
    /\ entry = [t \in Contexts |-> None]
    /\ last = Returned("os.unlink", TRUE)
    /\ script = NoInstances
    /\ _ai_logger = NoRef /\ instances = <<>> /\ environ = NoEnviron
    /\ path_exists = FALSE

\* AILogger(storage_path): __init__ calls self._init_db()
SchemaLogger ==
    /\ pc["X"] = "idle"
    /\ pc' = [pc EXCEPT !["X"] = "_init_db"]
    /\ entry' = [entry EXCEPT !["X"] =
                    [op |-> "AILogger.__init__",
                     io |-> [create_if_missing |-> TRUE,
                             missing |-> ~path_exists],
                     k |-> 0]]
    /\ UNCHANGED <<ai_logs, schema, conversation_id_ctx, logger, storage_up,
                   last, script, globals>>

\* LogStorage(db_path, create_if_missing)
SchemaStorage(create_if_missing) ==
    /\ pc["Y"] = "idle"
    /\ LET io == [create_if_missing |-> create_if_missing,
                  missing |-> ~path_exists]
           do == LogStorage(create_if_missing, path_exists)
       IN  CASE do = "_init_db" ->
                  /\ pc' = [pc EXCEPT !["Y"] = "_init_db"]
                  /\ entry' = [entry EXCEPT !["Y"] =
                                  [op |-> "LogStorage.__init__", io |-> io,
                                   k |-> 0]]
                  /\ UNCHANGED <<last, script>>
             [] do = "raise FileNotFoundError" ->
                  /\ last' = [op |-> "LogStorage.__init__",
                              outcome |-> "raised", io |-> io]
                  /\ UNCHANGED <<pc, entry, script>>
             [] do = "return" ->
                  /\ last' = Returned("LogStorage.__init__", io)
                  /\ script' = [script EXCEPT !.storage = TRUE]
                  /\ UNCHANGED <<pc, entry>>
    /\ UNCHANGED <<ai_logs, schema, conversation_id_ctx, logger, storage_up,
                   globals>>

\* conn = sqlite3.connect(path): the file is there afterwards
SchemaConnect(t) ==
    /\ pc[t] = "_init_db" /\ entry[t].k = 0
    /\ path_exists' = TRUE
    /\ entry' = [entry EXCEPT ![t].k = 1]
    /\ last' = Returned("connect", TRUE)
    /\ UNCHANGED <<ai_logs, schema, conversation_id_ctx, logger, storage_up,
                   pc, script, _ai_logger, instances, environ>>

\* the next cursor.execute of _init_db; an error leaves the constructor
SchemaExecute(t) ==
    /\ pc[t] = "_init_db" /\ entry[t].k \in 1..Len(Statements)
    /\ LET r == Execute(schema, ai_logs, Statements[entry[t].k])
       IN  IF r.raised
           THEN /\ last' = [op |-> entry[t].op, outcome |-> "raised",
                            io |-> entry[t].io]
                /\ pc' = [pc EXCEPT ![t] = "idle"]
                /\ entry' = [entry EXCEPT ![t] = None]
                /\ UNCHANGED <<ai_logs, schema>>
           ELSE /\ schema' = r.schema
                /\ ai_logs' = r.ai_logs
                /\ last' = Returned("execute", Statements[entry[t].k])
                /\ entry' = [entry EXCEPT ![t].k = @ + 1]
                /\ UNCHANGED pc
    /\ UNCHANGED <<conversation_id_ctx, logger, storage_up, script, globals>>

\* conn.commit(); conn.close(); the constructor returns the instance
SchemaCommit(t) ==
    /\ pc[t] = "_init_db" /\ entry[t].k = Len(Statements) + 1
    /\ last' = Returned(entry[t].op, entry[t].io)
    /\ script' = IF t = "X" THEN [script EXCEPT !.logger = TRUE]
                 ELSE [script EXCEPT !.storage = TRUE]
    /\ pc' = [pc EXCEPT ![t] = "idle"]
    /\ entry' = [entry EXCEPT ![t] = None]
    /\ UNCHANGED <<ai_logs, schema, conversation_id_ctx, logger, storage_up,
                   globals>>

\* a constructed logger logs; the script counts the rows it has stored
SchemaLog ==
    /\ script.logger
    /\ Log("X", "log", "prompt", "INFO", None, NoKw, FreshId(ai_logs), T1,
           "none")
    /\ script' = [script EXCEPT !.logged = Len(ai_logs')]

\* os.unlink(db_path): the cleanup of the test scripts
SchemaUnlink ==
    /\ path_exists
    /\ \A t \in Contexts : pc[t] = "idle"
    /\ path_exists' = FALSE
    /\ schema' = {}
    /\ ai_logs' = <<>>
    /\ script' = NoInstances
    /\ last' = Returned("os.unlink", TRUE)
    /\ UNCHANGED <<conversation_id_ctx, logger, storage_up, pc, entry,
                   _ai_logger, instances, environ>>

NextSchema ==
    \/ SchemaLogger
    \/ \E create_if_missing \in BOOLEAN : SchemaStorage(create_if_missing)
    \/ \E t \in Contexts : SchemaConnect(t) \/ SchemaExecute(t) \/ SchemaCommit(t)
    \/ SchemaLog
    \/ SchemaUnlink

SpecSchema == InitSchema /\ [][NextSchema]_vars

\* the call that completed last is a constructor that ran _init_db
RanInitDb ==
    /\ last.op \in {"AILogger.__init__", "LogStorage.__init__"}
    /\ last.outcome = "returned"
    /\ last.op = "LogStorage.__init__" => last.io.missing

\* C16: however the statements of AILogger._init_db and LogStorage._init_db
\* of several instances on one path interleave, and however often they run,
\* none of them raises, the schema never holds anything but the ai_logs table
\* and its four indexes, holds exactly those once a run has completed, and
\* every row stored so far is still there.
C16_IdempotentSchema ==
    /\ last.outcome = "raised" =>
          last.op = "LogStorage.__init__" /\ ~last.io.create_if_missing
    /\ schema \subseteq SchemaObjects
    /\ (script.logger \/ RanInitDb) => schema = SchemaObjects
    /\ Len(ai_logs) = script.logged
    /\ Ids(ai_logs) = 1..script.logged

\* a store runs its statements on a table already created by a logger, with
\* rows in it, while the logger is constructed again
C16_Witness ==
    /\ pc["Y"] = "_init_db" /\ entry["Y"].k = 3
    /\ pc["X"] = "_init_db" /\ entry["X"].k = 2
    /\ Len(ai_logs) = MaxRows
    /\ script.logger

\* C17: a LogStorage constructed where no file exists runs _init_db when
\* create_if_missing is true, so that it returns with the file and the whole
\* schema in place and a store produced; when create_if_missing is false it
\* raises FileNotFoundError, produces no store and creates nothing at the path
\* (last is the call completed last, and every later step that changes the
\* file or the script completes a call).
C17_MissingPath ==
    (last.op = "LogStorage.__init__" /\ last.io.missing) =>
        IF last.io.create_if_missing
        THEN /\ last.outcome = "returned"
             /\ path_exists /\ schema = SchemaObjects
             /\ script.storage
        ELSE /\ last.outcome = "raised"
             /\ ~path_exists /\ schema = {} /\ ai_logs = <<>>
             /\ ~script.storage

\* the constructor has raised on the missing path
C17_Witness ==
    /\ last.op = "LogStorage.__init__" /\ last.outcome = "raised"
    /\ last.io.missing /\ ~last.io.create_if_missing
    /\ ~path_exists /\ ~script.storage

\* C26: once LogStorage(db_path, create_if_missing=True) has returned, the
\* ai_logs table exists at the path, also when a file without the table was
\* there before.
C26_TableAfterConstruction ==
    (/\ last.op = "LogStorage.__init__"
     /\ last.outcome = "returned"
     /\ last.io.create_if_missing) => "ai_logs" \in schema

-----------------------------------------------------------------------------
(* SpecDecode: the logger stores evaluations with and without scores, other *)
(* writers of the file store rows whose metadata or evaluation_scores hold  *)
(* any text; query_logs reads the table and decodes the two columns         *)

InitDecode == InitWith({ConvLogger}, {None})

\* logger.log(EVALUATION, ..., evaluation_scores=scores)
DecodeLog ==
    /\ \E scores \in {PyNone, Scores, List({1})} :
          Log("X", "log", "evaluation", "INFO", None,
              [NoKw EXCEPT !.evaluation_scores = scores], FreshId(ai_logs), T1,
              "none")
    /\ UNCHANGED script

\* the texts a column holds: JSON objects, JSON of other types, the empty
\* text, malformed text
StoredTexts ==
    {"{}", "{\"coherence\": 1}", "[1]", "null", "", "not json", DeeplyNested}

\* INSERT INTO ai_logs by another writer of the file; metadata is NOT NULL
DecodeInsert ==
    /\ Len(ai_logs) < MaxRows
    /\ \E text \in StoredTexts, column \in {"metadata", "evaluation_scores"} :
          ai_logs' =
              Append(ai_logs,
                     [Row(AILogEntry(FreshId(ai_logs), T1, None, "evaluation",
                                     "INFO", NoKw))
                        EXCEPT ![column] = text])
    /\ last' = Returned("INSERT", FALSE)
    /\ UNCHANGED <<schema, conversation_id_ctx, logger, storage_up, pc, entry,
                   script, globals>>

\* storage.query_logs(): the rows selected, each with its JSON fields parsed
DecodeQuery ==
    /\ \E logs \in query_logs(ai_logs, NoFilter, DefaultLimit, 0) :
          last' =
              IF \E i \in 1..Len(logs) : ParseJson(logs[i]).raised # None
              THEN Raised("query_logs")
              ELSE Returned("query_logs",
                            [i \in 1..Len(logs) |-> ParseJson(logs[i])])
    /\ UNCHANGED <<ai_logs, schema, conversation_id_ctx, logger, storage_up,
                   pc, entry, script, globals>>

NextDecode == DecodeLog \/ DecodeInsert \/ DecodeQuery

SpecDecode == InitDecode /\ [][NextDecode]_vars

\* C18: whatever texts the metadata and evaluation_scores columns hold,
\* query_logs returns, and in every returned row metadata is a mapping and
\* evaluation_scores is a mapping or None.
C18_DecodesOrDefaults ==
    last.op = "query_logs" =>
        /\ last.outcome = "returned"
        /\ \A i \in DOMAIN last.io :
              /\ last.io[i].metadata.type = "dict"
              /\ last.io[i].evaluation_scores.type \in {"dict", "NoneType"}

-----------------------------------------------------------------------------
(* SpecTruncate: loggers that keep 0..MaxKeep characters log prompts and    *)
(* responses of 0..MaxText characters; the script remembers what it passed  *)

\* the text of n characters "abcabc..."
Text(n) == [i \in 1..n |-> <<"a", "b", "c">>[((i - 1) % 3) + 1]]

NothingPassed == [at |-> "none", field |-> "prompt_text", text |-> <<>>]

InitTruncate ==
    /\ ai_logs = <<>>
    /\ schema = SchemaObjects
    /\ conversation_id_ctx = [t \in Contexts |-> None]
    /\ logger \in {AILogger("ai_logs.db", "INFO", NoList, m) : m \in 0..MaxKeep}
    /\ storage_up = TRUE
    /\ pc = [t \in Contexts |-> "idle"]
    /\ entry = [t \in Contexts |-> None]
    /\ last = Constructed
    /\ script = NothingPassed
    /\ NoGlobal

\* logger.log_prompt(prompt_text=text, ...)
TruncateLogPrompt ==
    \E n \in 0..MaxText :
        /\ Log("X", "log_prompt", "prompt", "INFO", None,
               [WithModel("m") EXCEPT !.prompt_text = Text(n)],
               FreshId(ai_logs), T1, "none")
        /\ script' = [at |-> "logged", field |-> "prompt_text", text |-> Text(n)]

\* logger.log_response(response_text=text, ...)
TruncateLogResponse ==
    \E n \in 0..MaxText :
        /\ Log("X", "log_response", "response", "INFO", None,
               [WithModel("m") EXCEPT !.response_text = Text(n)],
               FreshId(ai_logs), T1, "none")
        /\ script' = [at |-> "logged", field |-> "response_text", text |-> Text(n)]

NextTruncate == TruncateLogPrompt \/ TruncateLogResponse

SpecTruncate == InitTruncate /\ [][NextTruncate]_vars

\* the value stored by the call the script made last
StoredText == ai_logs[Len(ai_logs)][script.field]

RECURSIVE Decimal(_)
\* the number that a sequence of decimal digits writes
Decimal(digits) ==
    IF digits = <<>> THEN 0
    ELSE Decimal(SubSeq(digits, 1, Len(digits) - 1)) * 10
         + (CHOOSE d \in 0..9 : Digit(d) = digits[Len(digits)])

MarkerHead ==
    <<".", ".", ".", " ", "[", "t", "r", "u", "n", "c", "a", "t", "e", "d", " ">>
MarkerTail == <<" ", "c", "h", "a", "r", "s", "]">>

\* C19: a prompt_text or response_text of length L logged through a logger
\* with max_log_length m is stored unchanged when L <= m; when L > m the
\* stored text is the first m characters followed by "... [truncated ",
\* the decimal digits of L - m and " chars]", and nothing else.
C19_Truncation ==
    script.at = "logged" =>
        LET L == Len(script.text)
            m == logger.max_log_length
            tail == SubSeq(StoredText, m + 1, Len(StoredText))
            digits == SubSeq(tail, Len(MarkerHead) + 1,
                             Len(tail) - Len(MarkerTail))
        IN  IF L <= m THEN StoredText = script.text
            ELSE /\ SubSeq(StoredText, 1, m) = SubSeq(script.text, 1, m)
                 /\ SubSeq(tail, 1, Len(MarkerHead)) = MarkerHead
                 /\ SubSeq(tail, Len(tail) - Len(MarkerTail) + 1, Len(tail))
                        = MarkerTail
                 /\ Len(digits) >= 1
                 /\ \A i \in 1..Len(digits) : \E d \in 0..9 : digits[i] = Digit(d)
                 /\ Decimal(digits) = L - m
                 /\ Len(StoredText) = m + Len(Marker(L - m))

\* a text of MaxText characters was cut to MaxKeep, so that the marker
\* reports a two-digit count
C19_Witness ==
    /\ script.at = "logged"
    /\ Len(script.text) = MaxText
    /\ logger.max_log_length = MaxKeep
    /\ StoredText # script.text
    /\ Len(ai_logs) = MaxRows

-----------------------------------------------------------------------------
(* SpecAllow: loggers constructed with and without an enabled_categories    *)
(* list, the empty list among them; the script remembers the argument       *)

AllowLists == {NoList, <<>>, <<"prompt">>, <<"prompt", "response">>}

InitAllow ==
    /\ ai_logs = <<>>
    /\ schema = SchemaObjects
    /\ conversation_id_ctx = [t \in Contexts |-> None]
    /\ \E l \in AllowLists, m \in {"DEBUG", "INFO"} :
          /\ logger = AILogger("ai_logs.db", m, l, DefaultMaxLogLength)
          /\ script = [at |-> "constructed", enabled_categories |-> l]
    /\ storage_up = TRUE
    /\ pc = [t \in Contexts |-> "idle"]
    /\ entry = [t \in Contexts |-> None]
    /\ last = Constructed
    /\ NoGlobal

\* logger.log(category, "m", severity)
AllowLog ==
    /\ \E category \in {"prompt", "response", "tool_call"},
          severity \in {"DEBUG", "INFO", "ERROR"} :
          Log("X", "log", category, severity, None, NoKw, FreshId(ai_logs),
              Epoch, "none")
    /\ UNCHANGED script

NextAllow == AllowLog

SpecAllow == InitAllow /\ [][NextAllow]_vars

\* C21: a logger constructed with an explicit enabled_categories list stores
\* only events whose category is in that list, the empty list included (no
\* row at all then).
C21_OnlyListedCategories ==
    script.enabled_categories # NoList =>
        \A i \in 1..Len(ai_logs) :
            InList(ai_logs[i].category, script.enabled_categories)

-----------------------------------------------------------------------------
(* SpecRows: events of several categories and severities are logged with    *)
(* and without extra keyword arguments, with a message or with None, while  *)
(* writes may fail; the script remembers the keyword arguments passed       *)

InitRows ==
    /\ ai_logs = <<>>
    /\ schema = SchemaObjects
    /\ conversation_id_ctx = [t \in Contexts |-> None]
    /\ logger \in {AILogger("ai_logs.db", "DEBUG", NoList, DefaultMaxLogLength),
                   AILogger("ai_logs.db", "WARNING", <<"error", "cost">>,
                            DefaultMaxLogLength)}
    /\ storage_up = TRUE
    /\ pc = [t \in Contexts |-> "idle"]
    /\ entry = [t \in Contexts |-> None]
    /\ last = Constructed
    /\ script = [at |-> "constructed", metadata |-> EmptyDict]
    /\ NoGlobal

\* logger.log(category, message, severity, **metadata)
RowsLog ==
    \E category \in {"prompt", "error", "cost"}, severity \in {"INFO", "CRITICAL"},
       message \in {"m", None}, metadata \in {EmptyDict, Scores}, fault \in GateFaults :
        /\ Log("X", "log", category, severity, None,
               [NoKw EXCEPT !.message = message, !.metadata = metadata],
               FreshId(ai_logs), Epoch, fault)
        /\ script' = [at |-> "logged", metadata |-> metadata]

NextRows == RowsLog

SpecRows == InitRows /\ [][NextRows]_vars

\* the call the script made last has stored a row
StoredLast == script.at = "logged" /\ last.outcome = "returned" /\ last.io

\* C22: every row of ai_logs has a message, one of the ten category values,
\* one of the five severity names and a metadata text that decodes to a JSON
\* object; the row of a call without extra keyword arguments has '{}'.
\* (id and timestamp are never null: they are str(uuid4()) and isoformat().)
C22_RowsWellFormed ==
    /\ \A i \in 1..Len(ai_logs) :
          /\ ai_logs[i].message # None
          /\ ai_logs[i].category \in LogCategories
          /\ ai_logs[i].severity \in LogSeverity
          /\ ai_logs[i].metadata # None
          /\ json_loads(ai_logs[i].metadata).raised = None
          /\ json_loads(ai_logs[i].metadata).value.type = "dict"
    /\ (StoredLast /\ script.metadata = EmptyDict) =>
          ai_logs[Len(ai_logs)].metadata = "{}"

\* rows with and without extra keyword arguments are stored, the last one
\* by a call without any
C22_Witness ==
    /\ StoredLast /\ script.metadata = EmptyDict
    /\ Len(ai_logs) = MaxRows
    /\ ai_logs[1].metadata # "{}"
    /\ ai_logs[1].severity = "CRITICAL"

-----------------------------------------------------------------------------
(* SpecCommit: one logger logs events one call after the other; the clock   *)
(* never goes back but may give the same reading twice; stores query        *)

InitCommit ==
    /\ ai_logs = <<>>
    /\ schema = SchemaObjects
    /\ conversation_id_ctx = [t \in Contexts |-> None]
    /\ logger = ConvLogger
    /\ storage_up = TRUE
    /\ pc = [t \in Contexts |-> "idle"]
    /\ entry = [t \in Contexts |-> None]
    /\ last = Constructed
    /\ script = [at |-> "constructed", now |-> T1]
    /\ NoGlobal

\* logger.log(...): datetime.now(timezone.utc) reads now, not before the
\* reading of the call before
CommitLog ==
    \E now \in QueryInstants, e \in QueryEvents :
        /\ Micro(script.now) <= Micro(now)
        /\ Log("X", "log", e.category, "INFO", e.conversation_id, NoKw,
               FreshId(ai_logs), now, "none")
        /\ script' = [at |-> "logged", now |-> now]

\* LogStorage(db_path).query_logs(...), from any instance
CommitQuery ==
    /\ \E f \in QueryFilters :
          \E logs \in query_logs(ai_logs, f, DefaultLimit, 0) :
              last' = Returned("query_logs", [filter |-> f, logs |-> logs])
    /\ UNCHANGED <<ai_logs, schema, conversation_id_ctx, logger, storage_up,
                   pc, entry, script, globals>>

NextCommit == CommitLog \/ CommitQuery

SpecCommit == InitCommit /\ [][NextCommit]_vars

\* the position of a returned row in the table, which is the order in which
\* the log calls committed
Committed(row) == CHOOSE i \in 1..Len(ai_logs) : ai_logs[i] = row

\* C23: every row stored by a log call that has returned is in the result of
\* a later query whose filter it satisfies, and the rows of a result are in
\* reverse commit order: the row of a later call before that of an earlier.
C23_CommitOrder ==
    last.op = "query_logs" =>
        LET logs == last.io.logs
        IN  /\ \A i \in 1..Len(ai_logs) :
                  Satisfies(ai_logs[i], last.io.filter) =>
                      \E k \in 1..Len(logs) : logs[k] = ai_logs[i]
            /\ \A j, k \in 1..Len(logs) :
                  j < k => Committed(logs[j]) > Committed(logs[k])

-----------------------------------------------------------------------------
(* SpecIds: events of two conversations and of none are logged at three     *)
(* instants; get_unique_conversation_ids is run with several limits         *)

InitIds == InitWith({ConvLogger}, {None})

IdsLog ==
    /\ \E now \in QueryInstants, conversation_id \in {None, "conv-1", "conv-2"} :
          Log("X", "log", "prompt", "INFO", conversation_id, NoKw,
              FreshId(ai_logs), now, "none")
    /\ UNCHANGED script

\* ids = storage.get_unique_conversation_ids(limit)
IdsRun ==
    /\ \E limit \in (0..MaxRows) \cup {DefaultIdLimit} :
          \E ids \in get_unique_conversation_ids(ai_logs, limit) :
              last' = Returned("get_unique_conversation_ids",
                               [limit |-> limit, ids |-> ids])
    /\ UNCHANGED <<ai_logs, schema, conversation_id_ctx, logger, storage_up,
                   pc, entry, script, globals>>

NextIds == IdsLog \/ IdsRun

SpecIds == InitIds /\ [][NextIds]_vars

\* the conversations of the table, and the instant of the latest row of one
Conversations == {ai_logs[i].conversation_id : i \in 1..Len(ai_logs)} \ {None}

LatestOf(c) ==
    CHOOSE t \in {TimeOf(ai_logs[i]) : i \in 1..Len(ai_logs)} :
        /\ \E i \in 1..Len(ai_logs) :
              ai_logs[i].conversation_id = c /\ TimeOf(ai_logs[i]) = t
        /\ \A i \in 1..Len(ai_logs) :
              ai_logs[i].conversation_id = c => TimeOf(ai_logs[i]) <= t

\* C25: get_unique_conversation_ids(limit) returns conversation ids of the
\* table, none of them null and none twice, latest activity first; it returns
\* min(limit, number of conversations) of them, and no conversation left out
\* was active later than one returned.
C25_LatestConversations ==
    last.op = "get_unique_conversation_ids" =>
        LET ids == last.io.ids
            returned == {ids[k] : k \in 1..Len(ids)}
        IN  /\ returned \subseteq Conversations
            /\ \A j, k \in 1..Len(ids) : j # k => ids[j] # ids[k]
            /\ Len(ids) = Min(last.io.limit, Cardinality(Conversations))
            /\ \A j, k \in 1..Len(ids) :
                  j < k => LatestOf(ids[j]) >= LatestOf(ids[k])
            /\ \A c \in Conversations \ returned, d \in returned :
                  LatestOf(c) <= LatestOf(d)

\* two conversations and limit 1: the one with the later row is returned,
\* though its row was stored first
C25_Witness ==
    /\ last.op = "get_unique_conversation_ids"
    /\ last.io.limit = 1
    /\ Len(ai_logs) = 2
    /\ ai_logs[1].conversation_id = "conv-2"
    /\ ai_logs[2].conversation_id = "conv-1"
    /\ TimeOf(ai_logs[1]) > TimeOf(ai_logs[2])
    /\ last.io.ids = <<"conv-2">>


-----------------------------------------------------------------------------
(* SpecSnapshot: get_statistics runs its four SELECT statements one after   *)
(* the other on one connection, each its own read transaction; log calls of *)
(* another context commit rows before, between and after them               *)

\* no connection is open: the locals of get_statistics before its first
\* statement
NoSnapshot ==
    [at |-> "closed", start_time |-> NoTime, end_time |-> NoTime,
     stats |-> get_statistics(<<>>, NoTime, NoTime)]

InitSnapshot ==
    /\ ai_logs = <<>>
    /\ schema = SchemaObjects
    /\ conversation_id_ctx = [t \in Contexts |-> None]
    /\ logger = ConvLogger
    /\ storage_up = TRUE
    /\ pc = [t \in Contexts |-> "idle"]
    /\ entry = [t \in Contexts |-> None]
    /\ last = Constructed
    /\ script = NoSnapshot
    /\ NoGlobal

\* a log call of context Y commits its row
SnapshotLog ==
    /\ \E now \in {T1, T2}, e \in StatsEvents :
          Log("Y", "log", e.category, e.severity, None, e.kw, FreshId(ai_logs),
              now, "none")
    /\ UNCHANGED script

\* conn = sqlite3.connect(self.db_path); SELECT COUNT(*) ...; fetchone()
SnapshotTotal ==
    /\ script.at = "closed"
    /\ \E r \in StatsRanges :
          script' = [at |-> "total", start_time |-> r[1], end_time |-> r[2],
                     stats |-> [NoSnapshot.stats EXCEPT
                        !.total_logs =
                            get_statistics(ai_logs, r[1], r[2]).total_logs]]
    /\ UNCHANGED <<ai_logs, schema, conversation_id_ctx, logger, storage_up,
                   pc, entry, last, globals>>

\* SELECT category, COUNT(*) ... GROUP BY category; fetchall()
SnapshotByCategory ==
    /\ script.at = "total"
    /\ script' = [script EXCEPT !.at = "by_category",
                     !.stats.by_category =
                         get_statistics(ai_logs, script.start_time,
                                        script.end_time).by_category]
    /\ UNCHANGED <<ai_logs, schema, conversation_id_ctx, logger, storage_up,
                   pc, entry, last, globals>>

\* SELECT severity, COUNT(*) ... GROUP BY severity; fetchall()
SnapshotBySeverity ==
    /\ script.at = "by_category"
    /\ script' = [script EXCEPT !.at = "by_severity",
                     !.stats.by_severity =
                         get_statistics(ai_logs, script.start_time,
                                        script.end_time).by_severity]
    /\ UNCHANGED <<ai_logs, schema, conversation_id_ctx, logger, storage_up,
                   pc, entry, last, globals>>

\* SELECT SUM(...), SUM(...), SUM(...), AVG(...) ...; fetchone();
\* conn.close(); return {...}
SnapshotReturn ==
    /\ script.at = "by_severity"
    /\ LET now == get_statistics(ai_logs, script.start_time, script.end_time)
           stats == [script.stats EXCEPT
                        !.total_input_tokens = now.total_input_tokens,
                        !.total_output_tokens = now.total_output_tokens,
                        !.total_cost_usd = now.total_cost_usd,
                        !.avg_latency_ms = now.avg_latency_ms]
       IN  /\ script' = NoSnapshot
           /\ last' = Returned("get_statistics",
                               [start_time |-> script.start_time,
                                end_time |-> script.end_time,
                                stats |-> stats])
    /\ UNCHANGED <<ai_logs, schema, conversation_id_ctx, logger, storage_up,
                   pc, entry, globals>>

NextSnapshot ==
    \/ SnapshotLog
    \/ SnapshotTotal
    \/ SnapshotByCategory
    \/ SnapshotBySeverity
    \/ SnapshotReturn

SpecSnapshot == InitSnapshot /\ [][NextSnapshot]_vars

\* the sum of the counts of a by_category or by_severity mapping
Counted(counts) == SumOver(counts, DOMAIN counts)

\* C28: while log calls insert rows concurrently, every mapping get_statistics
\* returns is a consistent snapshot: total_logs equals the sum of the
\* by_category counts and equals the sum of the by_severity counts.
C28_ConsistentSnapshot ==
    (last.op = "get_statistics" /\ last.outcome = "returned") =>
        LET stats == last.io.stats
        IN  /\ stats.total_logs = Counted(stats.by_category)
            /\ stats.total_logs = Counted(stats.by_severity)

-----------------------------------------------------------------------------
(* YouTubeHistoryAPIClient.get_all_videos_paginated: the pages of the API   *)
(* are fetched one request after the other until a page ends the loop       *)

\* min(limit, 500); the page sizes here are far below 500
PageLimit(limit) == IF limit < 500 THEN limit ELSE 500

\* `if max_videos`: None and 0 are no maximum
HasMax(max_videos) == max_videos # NoNumber /\ max_videos # Number(0)

\* all_videos[:max_videos]
Slice(videos, n) == SubSeq(videos, 1, Min(n, Len(videos)))

\* one pass of the `while True` loop with the response of
\* get_all_videos(limit, offset): the locals afterwards, and whether the loop
\* goes on
Paginate(v, response) ==
    LET videos == response.results
        all_videos == v.all_videos \o videos
    IN  IF Len(videos) = 0
        THEN [v EXCEPT !.all_videos = all_videos, !.at = "close"]
        ELSE IF ~response.has_more
        THEN [v EXCEPT !.all_videos = all_videos, !.at = "close"]
        ELSE IF HasMax(v.max_videos) /\ Len(all_videos) >= v.max_videos[1]
        THEN [v EXCEPT !.all_videos = Slice(all_videos, v.max_videos[1]),
                       !.at = "close"]
        ELSE IF /\ response.total_count # NoNumber
                /\ Len(all_videos) >= response.total_count[1]
        THEN [v EXCEPT !.all_videos = all_videos, !.at = "close"]
        ELSE [v EXCEPT !.all_videos = all_videos,
                       !.offset = v.offset + v.limit]

-----------------------------------------------------------------------------
(* SpecVideos: the API answers each request with a page of any size, any    *)
(* has_more flag and any total_count, or fails                              *)

\* no call is running
NoVideos ==
    [at |-> "none", limit |-> 0, max_videos |-> NoNumber, offset |-> 0,
     all_videos |-> <<>>, pages |-> <<>>]

InitVideos ==
    /\ ai_logs = <<>>
    /\ schema = SchemaObjects
    /\ conversation_id_ctx = [t \in Contexts |-> None]
    /\ logger = ConvLogger
    /\ storage_up = TRUE
    /\ pc = [t \in Contexts |-> "idle"]
    /\ entry = [t \in Contexts |-> None]
    /\ last = Constructed
    /\ script = NoVideos
    /\ NoGlobal

\* the videos of a page of n results, numbered on from those fetched before
Results(fetched, n) == [i \in 1..n |-> fetched + i]

RECURSIVE Concat(_)
\* the pages one after the other
Concat(pages) ==
    IF pages = <<>> THEN <<>> ELSE Head(pages) \o Concat(Tail(pages))

\* client.get_all_videos_paginated(limit, max_videos): up to the loop
VideosCall ==
    /\ script.at = "none"
    /\ \E limit \in 1..MaxRows,
          max_videos \in {NoNumber} \cup {Number(n) : n \in 0..MaxRows} :
          script' = [at |-> "loop", limit |-> PageLimit(limit),
                     max_videos |-> max_videos, offset |-> 0,
                     all_videos |-> <<>>, pages |-> <<>>]
    /\ UNCHANGED <<ai_logs, schema, conversation_id_ctx, logger, storage_up,
                   pc, entry, last, globals>>

\* response = self.get_all_videos(limit=limit, offset=offset) returns, and
\* the rest of the pass
VideosPage ==
    /\ script.at = "loop"
    /\ Len(script.pages) <= MaxRows
    /\ \E n \in 0..MaxRows, has_more \in BOOLEAN,
          total_count \in {NoNumber} \cup {Number(k) : k \in {0, MaxRows}} :
          LET results == Results(Len(Concat(script.pages)), n)
              response == [results |-> results, has_more |-> has_more,
                           total_count |-> total_count]
          IN  script' = [Paginate(script, response) EXCEPT
                            !.pages = Append(script.pages, results)]
    /\ UNCHANGED <<ai_logs, schema, conversation_id_ctx, logger, storage_up,
                   pc, entry, last, globals>>

\* the request fails: _make_request raises and the call raises with it
VideosRaise ==
    /\ script.at = "loop"
    /\ script' = NoVideos
    /\ last' = Raised("get_all_videos_paginated")
    /\ UNCHANGED <<ai_logs, schema, conversation_id_ctx, logger, storage_up,
                   pc, entry, globals>>

\* pbar.close(); return all_videos
VideosReturn ==
    /\ script.at = "close"
    /\ script' = NoVideos
    /\ last' = Returned("get_all_videos_paginated",
                        [max_videos |-> script.max_videos,
                         videos |-> script.all_videos,
                         pages |-> script.pages])
    /\ UNCHANGED <<ai_logs, schema, conversation_id_ctx, logger, storage_up,
                   pc, entry, globals>>

NextVideos == VideosCall \/ VideosPage \/ VideosRaise \/ VideosReturn

SpecVideos == InitVideos /\ [][NextVideos]_vars

\* C27: get_all_videos_paginated(limit, max_videos=m) with m > 0 returns at
\* most m videos whatever pages the API gives, and with max_videos omitted it
\* returns the concatenation of all fetched pages in order.
C27_AtMostMaxVideos ==
    (/\ last.op = "get_all_videos_paginated"
     /\ last.outcome = "returned") =>
        /\ (/\ last.io.max_videos # NoNumber
            /\ last.io.max_videos[1] > 0) =>
               Len(last.io.videos) <= last.io.max_videos[1]
        /\ last.io.max_videos = NoNumber =>
               last.io.videos = Concat(last.io.pages)

-----------------------------------------------------------------------------
(* ChatEngine: process_message, _handle_tool_calls, _evaluate_and_enhance   *)

\* one call of self.ai_logger.log, or of a wrapper of it, made by the engine
\* in context X on the table db: the table afterwards and the outcome
Write(db, category, severity, conversation_id, fault) ==
    log(logger, CtxGet(conversation_id_ctx, "X"), db, storage_up, fault,
        category, severity, conversation_id, NoKw, FreshId(db), T1)

\* the rest of one pass of the `for tool_call in response.tool_calls` loop
\* after log_tool_call: a tool of tool_map returns or raises, or the name is
\* unknown; the try block holds the invocation, the log of the successful
\* result and the ToolMessage, the except block logs the failed result
InvokeTool(kind, db, conversation_id, fault, fault_in_except) ==
    LET success == Write(db, "tool_result", "INFO", conversation_id, fault)
        failure(d, f) == Write(d, "tool_result", "ERROR", conversation_id, f)
    IN  IF kind = "unknown"
        THEN [ai_logs |-> failure(db, fault).ai_logs,
              raised |-> failure(db, fault).outcome = "raised",
              message |-> "Unknown tool"]
        ELSE IF kind = "returns" /\ success.outcome = "returned"
        THEN [ai_logs |-> success.ai_logs, raised |-> FALSE,
              message |-> "result"]
        ELSE LET d == IF kind = "returns" THEN success.ai_logs ELSE db
             IN  [ai_logs |-> failure(d, fault_in_except).ai_logs,
                  raised |-> failure(d, fault_in_except).outcome = "raised",
                  message |-> "Error executing tool"]

\* _evaluate_and_enhance: skipped by SKIP_EVALUATION_ENHANCEMENT, or the
\* evaluator runs and its summary is logged, and when the response needs it
\* the enhancer runs and the enhancement is logged; whatever raises inside is
\* caught and the response text is returned. The table afterwards.
_evaluate_and_enhance(db, plan, conversation_id, fault, fault_of_second) ==
    LET summary == Write(db, "evaluation", "INFO", conversation_id, fault)
        enhancement == Write(summary.ai_logs, "evaluation", "INFO",
                             conversation_id, fault_of_second)
    IN  IF plan \in {"skip", "evaluator raises"} THEN db
        ELSE IF summary.outcome = "raised" \/ plan = "good" THEN summary.ai_logs
        ELSE IF plan = "enhancer raises" THEN summary.ai_logs
        ELSE enhancement.ai_logs

\* mutant: the conversation id the caller had set is put back
process_message_restoring(ctx, t, before) == CtxSet(ctx, t, before)

\* the finally block of process_message: self.ai_logger.clear_conversation_id()
process_message_finally(ctx, t, before) == CtxSet(ctx, t, None)

\* one activation of _handle_tool_calls: the tool calls of the response, the
\* ToolMessages collected, and the rows of the table at its start and when
\* the model is invoked again
Frame(tool_calls, base) ==
    [tool_calls |-> tool_calls, tool_messages |-> <<>>, base |-> base,
     upto |-> base]

\* no request is running
NoRequest ==
    [at |-> "none", conversation_id |-> None, before |-> None, frames |-> <<>>]

-----------------------------------------------------------------------------
(* SpecChat: requests with model responses that carry no, one or two tool   *)
(* calls, tools that return, raise or are unknown, an evaluator that is     *)
(* skipped, fails or runs, and logger writes that fail at any point         *)

ToolCallLists ==
    {<<>>, <<"returns">>, <<"raises">>, <<"unknown">>,
     <<"returns", "returns">>, <<"returns", "raises">>,
     <<"unknown", "returns">>}

EvaluationPlans ==
    {"skip", "evaluator raises", "good", "enhancer raises", "enhanced"}

ChatFaults == {"none", "insert"}

\* the model asks for tools again while the table holds no more rows than this
MaxToolRows == MaxRows + MaxKeep + 1

InitChat ==
    /\ ai_logs = <<>>
    /\ schema = SchemaObjects
    /\ conversation_id_ctx \in [Contexts -> {None, "conv-2"}]
    /\ logger = ConvLogger
    /\ storage_up = TRUE
    /\ pc = [t \in Contexts |-> "idle"]
    /\ entry = [t \in Contexts |-> None]
    /\ last = Constructed
    /\ script = NoRequest
    /\ NoGlobal

\* the last activation of _handle_tool_calls
Top(frames) == frames[Len(frames)]

\* where the for loop stands: at the next tool call, or past the last
AfterTool(frames) ==
    IF Len(Top(frames).tool_messages) < Len(Top(frames).tool_calls)
    THEN "tool_call" ELSE "final"

\* process_message(message, history) up to the try: str(uuid.uuid4()),
\* set_conversation_id
ChatProcessMessage ==
    /\ script.at = "none"
    /\ Len(ai_logs) < MaxSec
    /\ conversation_id_ctx' = CtxSet(conversation_id_ctx, "X", "conv-1")
    /\ script' = [at |-> "prompt", conversation_id |-> "conv-1",
                  before |-> CtxGet(conversation_id_ctx, "X"),
                  frames |-> <<>>]
    /\ UNCHANGED <<ai_logs, schema, logger, storage_up, pc, entry, last,
                   globals>>

\* get_system_prompt, the messages, log_prompt
ChatLogPrompt ==
    /\ script.at = "prompt"
    /\ \E raises \in BOOLEAN, fault \in ChatFaults :
          LET r == Write(ai_logs, "prompt", "INFO", script.conversation_id,
                         fault)
          IN  IF raises
              THEN /\ script' = [script EXCEPT !.at = "except"]
                   /\ UNCHANGED ai_logs
              ELSE /\ ai_logs' = r.ai_logs
                   /\ script' = [script EXCEPT !.at =
                         IF r.outcome = "raised" THEN "except" ELSE "invoke"]
    /\ UNCHANGED <<schema, conversation_id_ctx, logger, storage_up, pc, entry,
                   last, globals>>

\* self.model_with_tools.invoke(messages) and log_response, in process_message
ChatInvoke ==
    /\ script.at = "invoke"
    /\ \E raises \in BOOLEAN, tool_calls \in ToolCallLists,
          fault \in ChatFaults :
          LET r == Write(ai_logs, "response", "INFO", script.conversation_id,
                         fault)
          IN  IF raises
              THEN /\ script' = [script EXCEPT !.at = "except"]
                   /\ UNCHANGED ai_logs
              ELSE /\ ai_logs' = r.ai_logs
                   /\ script' =
                         IF r.outcome = "raised"
                         THEN [script EXCEPT !.at = "except"]
                         ELSE IF tool_calls = <<>>
                         THEN [script EXCEPT !.at = "evaluate"]
                         ELSE [script EXCEPT !.at = "tool_call",
                                  !.frames = <<Frame(tool_calls,
                                                     Len(r.ai_logs))>>]
    /\ UNCHANGED <<schema, conversation_id_ctx, logger, storage_up, pc, entry,
                   last, globals>>

\* the head of one pass of the for loop: log_tool_call, outside any try
ToolLogCall ==
    /\ script.at = "tool_call"
    /\ \E fault \in ChatFaults :
          LET r == Write(ai_logs, "tool_call", "INFO", script.conversation_id,
                         fault)
          IN  /\ ai_logs' = r.ai_logs
              /\ script' = [script EXCEPT !.at =
                    IF r.outcome = "raised" THEN "except" ELSE "tool_invoke"]
    /\ UNCHANGED <<schema, conversation_id_ctx, logger, storage_up, pc, entry,
                   last, globals>>

\* the rest of the pass: the tool is invoked, its result logged and a
\* ToolMessage appended
ToolInvoke ==
    /\ script.at = "tool_invoke"
    /\ \E fault \in ChatFaults, fault_in_except \in ChatFaults :
          LET f == Top(script.frames)
              kind == f.tool_calls[Len(f.tool_messages) + 1]
              r == InvokeTool(kind, ai_logs, script.conversation_id, fault,
                              fault_in_except)
              frames == [script.frames EXCEPT
                            ![Len(script.frames)].tool_messages =
                                Append(@, r.message)]
          IN  /\ ai_logs' = r.ai_logs
              /\ script' =
                    IF r.raised THEN [script EXCEPT !.at = "except"]
                    ELSE [script EXCEPT !.frames = frames,
                                        !.at = AfterTool(frames)]
    /\ UNCHANGED <<schema, conversation_id_ctx, logger, storage_up, pc, entry,
                   last, globals>>

\* after the loop: messages.extend(tool_messages), the model is invoked
\* again, log_response; then the recursion for further tool calls, or
\* _evaluate_and_enhance and the return of _handle_tool_calls (and with it of
\* every activation that waits for it)
ToolFinal ==
    /\ script.at = "final"
    /\ \E raises \in BOOLEAN, tool_calls \in ToolCallLists,
          plan \in EvaluationPlans, fault \in ChatFaults,
          fault_of_first \in ChatFaults, fault_of_second \in ChatFaults :
          LET r == Write(ai_logs, "response", "INFO", script.conversation_id,
                         fault)
              frames == [script.frames EXCEPT
                            ![Len(script.frames)].upto = Len(ai_logs)]
          IN  /\ tool_calls # <<>> => Len(r.ai_logs) <= MaxToolRows
              /\ IF raises
                 THEN /\ script' = [script EXCEPT !.at = "except"]
                      /\ UNCHANGED ai_logs
                 ELSE IF r.outcome = "raised"
                 THEN /\ script' = [script EXCEPT !.at = "except"]
                      /\ ai_logs' = r.ai_logs
                 ELSE IF tool_calls # <<>>
                 THEN /\ script' = [script EXCEPT !.at = "tool_call",
                            !.frames = Append(frames,
                                              Frame(tool_calls, Len(r.ai_logs)))]
                      /\ ai_logs' = r.ai_logs
                 ELSE /\ script' = [script EXCEPT !.at = "handled",
                                                  !.frames = frames]
                      /\ ai_logs' = _evaluate_and_enhance(r.ai_logs, plan,
                                        script.conversation_id,
                                        fault_of_first, fault_of_second)
    /\ UNCHANGED <<schema, conversation_id_ctx, logger, storage_up, pc, entry,
                   last, globals>>

\* return self._evaluate_and_enhance(final_response, ...), and the finally
ChatReturn ==
    /\ script.at \in {"evaluate", "handled"}
    /\ \E plan \in EvaluationPlans, fault \in ChatFaults,
          fault_of_second \in ChatFaults :
          ai_logs' = _evaluate_and_enhance(ai_logs, plan,
                         script.conversation_id, fault, fault_of_second)
    /\ conversation_id_ctx' =
          process_message_finally(conversation_id_ctx, "X", script.before)
    /\ last' = [op |-> "process_message", outcome |-> "returned",
                io |-> [conversation_id |-> script.conversation_id,
                        before |-> script.before]]
    /\ script' = NoRequest
    /\ UNCHANGED <<schema, logger, storage_up, pc, entry, globals>>

\* except Exception: the error is logged and the apology returned, or the
\* log of the error raises in its turn; and the finally
ChatExcept ==
    /\ script.at = "except"
    /\ \E fault \in ChatFaults :
          LET r == Write(ai_logs, "error", "ERROR", script.conversation_id,
                         fault)
          IN  /\ ai_logs' = r.ai_logs
              /\ last' = [op |-> "process_message", outcome |-> r.outcome,
                          io |-> [conversation_id |-> script.conversation_id,
                                  before |-> script.before]]
    /\ conversation_id_ctx' =
          process_message_finally(conversation_id_ctx, "X", script.before)
    /\ script' = NoRequest
    /\ UNCHANGED <<schema, logger, storage_up, pc, entry, globals>>

\* the caller logs a cost event right after the request, without an id
ChatLogAfter ==
    /\ script.at = "none"
    /\ last.op = "process_message"
    /\ LogCall("X", "log", "cost", "INFO", None, NoKw, FreshId(ai_logs), T1,
               "none")
    /\ UNCHANGED script

NextChat ==
    \/ ChatProcessMessage
    \/ ChatLogPrompt
    \/ ChatInvoke
    \/ ToolLogCall
    \/ ToolInvoke
    \/ ToolFinal
    \/ ChatReturn
    \/ ChatExcept
    \/ ChatLogAfter

SpecChat == InitChat /\ [][NextChat]_vars

\* C24: whatever fails during a request (the model, a tool, the evaluator, a
\* logger write, every logger write), process_message raises nothing to its
\* caller and returns a string.
C24_NothingRaised ==
    last.op = "process_message" => last.outcome = "returned"

\* the rows of the tool events a frame logged before the model was invoked
\* again
ToolRows(f) ==
    SelectSeq(SubSeq(ai_logs, f.base + 1, f.upto),
              LAMBDA row : row.category \in {"tool_call", "tool_result"})

\* C29: when process_message has finished, by returning or by raising, the
\* ambient conversation id of the calling context is absent, also when the
\* caller had set one before; a log call made after the request does not
\* carry the id of the request.
C29_AmbientCleared ==
    /\ (last.op = "process_message" /\ script.at = "none") =>
          CtxGet(conversation_id_ctx, "X") = None
    /\ \A i \in 1..Len(ai_logs) :
          ai_logs[i].category = "cost" => ai_logs[i].conversation_id = None

C29_Witness ==
    /\ last.op = "process_message"
    /\ script.at = "none"
    /\ last.outcome = "raised"
    /\ last.io.before = "conv-2"

\* C30: when _handle_tool_calls returns, each tool call of each response has,
\* in order, exactly one tool_call event and after it exactly one tool_result
\* event, and exactly one ToolMessage; the tool_result records success (it is
\* of severity INFO) exactly when the invocation returned.
C30_OneResultPerToolCall ==
    script.at = "handled" =>
        \A n \in 1..Len(script.frames) :
            LET f == script.frames[n]
                rows == ToolRows(f)
            IN  /\ Len(rows) = 2 * Len(f.tool_calls)
                /\ Len(f.tool_messages) = Len(f.tool_calls)
                /\ \A k \in 1..Len(f.tool_calls) :
                      /\ rows[(2 * k) - 1].category = "tool_call"
                      /\ rows[2 * k].category = "tool_result"
                      /\ rows[2 * k].severity = "INFO"
                            <=> f.tool_calls[k] = "returns"

====
